---- MODULE Spec2Model ----
(***************************************************************************)
(* A model of ql.py, the Quick Launcher: the modal key-dispatch loops of    *)
(* the command screen and the template screen, the command-line parser,     *)
(* and the run / hand-off path.                                             *)
(*                                                                          *)
(* A Python str is modelled as a sequence of characters.  A printable       *)
(* character is the one-letter string that shows it ("a", "/", " ");        *)
(* a control character is named by a longer string ("CR", "ESC", ...).      *)
(***************************************************************************)
EXTENDS Integers, Sequences, FiniteSets, TLC

(***************************************************************************)
(* Bounds of the model.                                                     *)
(***************************************************************************)
\* the disk is written (a run counted, an entry added, a template saved or
\* removed, a script file left behind by a hand-off that failed) only while
\* fewer than MaxWrites writes were made
MaxWrites == 1
\* the longest key sequence remembered since '/' was pressed
MaxTyped == 2

(***************************************************************************)
(* Characters and strings.                                                  *)
(***************************************************************************)
\* '\r' '\n' '\t' '\x7f' '\x08' '\x1b' '\x03' '\x04' '\x19' '\x14'
ControlChars ==
    {"CR", "LF", "TAB", "DEL", "BS", "ESC", "ETX", "EOT", "EM", "DC4"}

Digits == {"0", "1", "2", "3", "4", "5", "6", "7", "8", "9"}

\* int(key) of a one-digit key
DigitValue(c) ==
    CASE c = "0" -> 0 [] c = "1" -> 1 [] c = "2" -> 2 [] c = "3" -> 3
      [] c = "4" -> 4 [] c = "5" -> 5 [] c = "6" -> 6 [] c = "7" -> 7
      [] c = "8" -> 8 [] c = "9" -> 9

\* the lower-case letter of each capital letter A..Z
LowerOf ==
    [c \in {"A", "B", "C", "D", "E", "F", "G", "H", "I", "J", "K", "L", "M",
          "N", "O", "P", "Q", "R", "S", "T", "U", "V", "W", "X", "Y", "Z"} |->
        CASE c = "A" -> "a" [] c = "B" -> "b" [] c = "C" -> "c" [] c = "D" -> "d"
          [] c = "E" -> "e" [] c = "F" -> "f" [] c = "G" -> "g" [] c = "H" -> "h"
          [] c = "I" -> "i" [] c = "J" -> "j" [] c = "K" -> "k" [] c = "L" -> "l"
          [] c = "M" -> "m" [] c = "N" -> "n" [] c = "O" -> "o" [] c = "P" -> "p"
          [] c = "Q" -> "q" [] c = "R" -> "r" [] c = "S" -> "s" [] c = "T" -> "t"
          [] c = "U" -> "u" [] c = "V" -> "v" [] c = "W" -> "w" [] c = "X" -> "x"
          [] c = "Y" -> "y" [] c = "Z" -> "z"]

\* the Greek sigmas: capital U+03A3, small U+03C3 and final small U+03C2; all
\* three are printable characters that one key press delivers
CapitalSigma == "SIGMA"
SmallSigma == "sigma"
FinalSigma == "final sigma"

SmallLetters ==
    {"a", "b", "c", "d", "e", "f", "g", "h", "i", "j", "k", "l", "m",
     "n", "o", "p", "q", "r", "s", "t", "u", "v", "w", "x", "y", "z"}
CapitalLetters ==
    {"A", "B", "C", "D", "E", "F", "G", "H", "I", "J", "K", "L", "M",
     "N", "O", "P", "Q", "R", "S", "T", "U", "V", "W", "X", "Y", "Z"}

\* the characters with a case, and those that a word may hold between its
\* letters without ending it, as str.lower() tells them apart
Cased == SmallLetters \cup CapitalLetters \cup {CapitalSigma, SmallSigma, FinalSigma}
\* ' . : ^ and the grave accent
CaseIgnorable == {"'", ".", ":", "^", "GRAVE"}

RECURSIVE CasedBefore(_, _)
\* the nearest character at or before position i that is not case-ignorable is cased
CasedBefore(s, i) ==
    IF i < 1 THEN FALSE
    ELSE IF s[i] \in CaseIgnorable THEN CasedBefore(s, i - 1)
    ELSE s[i] \in Cased

RECURSIVE CasedAfter(_, _)
\* the nearest character at or after position i that is not case-ignorable is cased
CasedAfter(s, i) ==
    IF i > Len(s) THEN FALSE
    ELSE IF s[i] \in CaseIgnorable THEN CasedAfter(s, i + 1)
    ELSE s[i] \in Cased

\* the capital sigma at position i ends a word: it lowers to the final sigma
IsFinalSigma(s, i) == CasedBefore(s, i - 1) /\ ~CasedAfter(s, i + 1)

\* str.lower(): letter by letter, but for the capital sigma, whose lower-case
\* form depends on the letters around it
Lower(s) ==
    [i \in 1..Len(s) |->
        IF s[i] = CapitalSigma
        THEN IF IsFinalSigma(s, i) THEN FinalSigma ELSE SmallSigma
        ELSE IF s[i] \in DOMAIN LowerOf THEN LowerOf[s[i]] ELSE s[i]]

\* str.isprintable(): every character is printable (true of the empty string)
IsPrintable(s) == \A i \in 1..Len(s) : s[i] \notin ControlChars

\* str.isdigit(): at least one character and every character a digit
IsDigit(s) == Len(s) > 0 /\ \A i \in 1..Len(s) : s[i] \in Digits

Whitespace == {" ", "TAB", "CR", "LF"}

\* str.strip() is non-empty
HasText(s) == \E i \in 1..Len(s) : s[i] \notin Whitespace

RECURSIVE SplitFrom(_, _, _)
\* the tokens of s from position i on, cur being the token under construction
SplitFrom(s, i, cur) ==
    IF i > Len(s)
    THEN IF cur = <<>> THEN <<>> ELSE <<cur>>
    ELSE IF s[i] \in Whitespace
         THEN IF cur = <<>> THEN SplitFrom(s, i + 1, <<>>)
                            ELSE <<cur>> \o SplitFrom(s, i + 1, <<>>)
         ELSE SplitFrom(s, i + 1, Append(cur, s[i]))

\* str.strip().split()
Split(s) == SplitFrom(s, 1, <<>>)

RECURSIVE JoinFrom(_, _)
JoinFrom(parts, i) ==
    IF i > Len(parts) THEN <<>>
    ELSE IF i = Len(parts) THEN parts[i]
    ELSE parts[i] \o <<" ">> \o JoinFrom(parts, i + 1)

\* ' '.join(parts[k:]), k counted from 1
JoinTail(parts, k) == JoinFrom(parts, k)

RECURSIVE Strip(_)
\* str.strip()
Strip(s) ==
    IF s = <<>> THEN s
    ELSE IF s[1] \in Whitespace THEN Strip(Tail(s))
    ELSE IF s[Len(s)] \in Whitespace THEN Strip(SubSeq(s, 1, Len(s) - 1))
    ELSE s

\* seq[i] of Python for an index i counted from 0: a negative index counts
\* from the end
PyIndex(seq, i) == IF i < 0 THEN seq[Len(seq) + i + 1] ELSE seq[i + 1]

\* s[:-1]
DropLast(s) == SubSeq(s, 1, Len(s) - 1)

\* pattern in text
IsSubstring(p, t) ==
    \E k \in 0..(Len(t) - Len(p)) : SubSeq(t, k + 1, k + Len(p)) = p

\* text.startswith(p)
StartsWith(t, p) == Len(p) <= Len(t) /\ SubSeq(t, 1, Len(p)) = p

RECURSIVE FuzzyWalk(_, _, _, _)
\* the loop of fuzzy_match: k walks the text, i is the pattern cursor
FuzzyWalk(t, p, k, i) ==
    IF k > Len(t) THEN i
    ELSE IF i < Len(p) /\ t[k] = p[i + 1]
         THEN FuzzyWalk(t, p, k + 1, i + 1)
         ELSE FuzzyWalk(t, p, k + 1, i)

\* UIManager.fuzzy_match(text, pattern)
fuzzy_match(text, pattern) ==
    IF pattern = <<>> THEN TRUE
    ELSE LET text_str == Lower(text)
             pattern_str == Lower(pattern)
         IN  IF IsSubstring(pattern_str, text_str) THEN TRUE
             ELSE FuzzyWalk(text_str, pattern_str, 1, 0) = Len(pattern_str)


(***************************************************************************)
(* The stores.  OrderedDict / dict contents are sequences of records, in    *)
(* insertion order, the key being the alias (the template name).            *)
(***************************************************************************)
ea == [alias |-> <<"a">>, type |-> "link", command |-> <<"x">>,
       description |-> <<>>, tags |-> <<>>]
eb == [alias |-> <<"c", "B">>, type |-> "chain", command |-> <<"x">>,
       description |-> <<"y">>, tags |-> <<>>]
\* a body that matches the dangerous pattern \bmkfs\b
ec == [alias |-> <<"c">>, type |-> "link", command |-> <<"m", "k", "f", "s">>,
       description |-> <<>>, tags |-> << <<"a">> >>]

t1 == [name |-> <<"t">>, template |-> <<"x", "{", "v", "}">>,
       description |-> <<"y">>, placeholders |-> << <<"v">> >>]
t2 == [name |-> <<"k">>, template |-> <<"x", "y">>,
       description |-> <<"a">>, placeholders |-> <<>>]

\* the command file and the template file a session starts from
InitCommands == {<<ea, eb, ec>>}
InitTemplates == {<<t1, t2>>}

\* alias in commands
HasAlias(cmds, a) == \E i \in 1..Len(cmds) : cmds[i].alias = a
IndexOfAlias(cmds, a) == CHOOSE i \in 1..Len(cmds) : cmds[i].alias = a
\* name in templates
HasTemplate(tpls, n) == \E i \in 1..Len(tpls) : tpls[i].name = n
IndexOfTemplate(tpls, n) == CHOOSE i \in 1..Len(tpls) : tpls[i].name = n

\* get_filtered_commands with a test that leaves the tags out
CommandMatchesWithoutTags(cmd_data, text) ==
    \/ fuzzy_match(cmd_data.alias, text)
    \/ fuzzy_match(cmd_data.command, text)
    \/ fuzzy_match(cmd_data.description, text)

\* the test of get_filtered_commands on one entry
CommandMatches(cmd_data, text) ==
    \/ fuzzy_match(cmd_data.alias, text)
    \/ fuzzy_match(cmd_data.command, text)
    \/ fuzzy_match(cmd_data.description, text)
    \/ fuzzy_match(JoinFrom(cmd_data.tags, 1), text)

RECURSIVE FilterCommandsFrom(_, _, _)
\* the loop of get_filtered_commands over commands.items()
FilterCommandsFrom(cmds, i, text) ==
    IF i > Len(cmds) THEN <<>>
    ELSE IF CommandMatches(cmds[i], text)
         THEN <<cmds[i]>> \o FilterCommandsFrom(cmds, i + 1, text)
         ELSE FilterCommandsFrom(cmds, i + 1, text)

\* QLLauncher.get_filtered_commands, the filter text given
get_filtered_commands(cmds, text) ==
    IF text = <<>> THEN cmds ELSE FilterCommandsFrom(cmds, 1, text)

\* the test of get_filtered_templates on one entry
TemplateMatches(template_data, text) ==
    \/ fuzzy_match(template_data.name, text)
    \/ fuzzy_match(template_data.template, text)
    \/ fuzzy_match(template_data.description, text)
    \/ fuzzy_match(JoinFrom(template_data.placeholders, 1), text)

RECURSIVE FilterTemplatesFrom(_, _, _)
FilterTemplatesFrom(tpls, i, text) ==
    IF i > Len(tpls) THEN <<>>
    ELSE IF TemplateMatches(tpls[i], text)
         THEN <<tpls[i]>> \o FilterTemplatesFrom(tpls, i + 1, text)
         ELSE FilterTemplatesFrom(tpls, i + 1, text)

\* UIManager.get_filtered_templates
get_filtered_templates(tpls, text) ==
    IF text = <<>> THEN tpls ELSE FilterTemplatesFrom(tpls, 1, text)

\* the characters of this model that are not \w of a regular expression
NonWordChars == Whitespace \cup {"/", "{", "}", "-", ":"}

\* CommandManager.is_dangerous_command with the one pattern of
\* dangerous_patterns that a body of this model can match: r'\bmkfs\b',
\* re.IGNORECASE
is_dangerous_command(command) ==
    \E k \in 0..(Len(command) - 4) :
        /\ SubSeq(Lower(command), k + 1, k + 4) = <<"m", "k", "f", "s">>
        /\ (k = 0 \/ command[k] \in NonWordChars)
        /\ (k + 4 = Len(command) \/ command[k + 5] \in NonWordChars)

\* the index of the first '}' of s after position i, 0 when there is none
FirstClose(s, i) ==
    IF \E j \in (i + 1)..Len(s) : s[j] = "}"
    THEN CHOOSE j \in (i + 1)..Len(s) :
            s[j] = "}" /\ \A m \in (i + 1)..(j - 1) : s[m] # "}"
    ELSE 0

RECURSIVE FindPlaceholders(_, _)
\* re.findall(r'\{([^}]+)\}', command), scanning from position i
FindPlaceholders(s, i) ==
    IF i > Len(s) THEN <<>>
    ELSE IF s[i] = "{" /\ FirstClose(s, i) > i + 1
         THEN <<SubSeq(s, i + 1, FirstClose(s, i) - 1)>>
                  \o FindPlaceholders(s, FirstClose(s, i) + 1)
         ELSE FindPlaceholders(s, i + 1)

RECURSIVE Dedupe(_, _)
\* list(dict.fromkeys(matches))
Dedupe(xs, i) ==
    IF i > Len(xs) THEN <<>>
    ELSE IF \E m \in 1..(i - 1) : xs[m] = xs[i]
         THEN Dedupe(xs, i + 1)
         ELSE <<xs[i]>> \o Dedupe(xs, i + 1)

\* TemplateManager.extract_placeholders
extract_placeholders(command) == Dedupe(FindPlaceholders(command, 1), 1)

RECURSIVE ReplaceFrom(_, _, _, _)
\* s.replace(old, new), from position i on
ReplaceFrom(s, i, old, new) ==
    IF i > Len(s) THEN <<>>
    ELSE IF i + Len(old) - 1 <= Len(s) /\ SubSeq(s, i, i + Len(old) - 1) = old
         THEN new \o ReplaceFrom(s, i + Len(old), old, new)
         ELSE <<s[i]>> \o ReplaceFrom(s, i + 1, old, new)

RECURSIVE FillPlaceholders(_, _, _, _)
\* the replacement loop of run_template over values.items()
FillPlaceholders(cmd, names, values, i) ==
    IF i > Len(names) THEN cmd
    ELSE FillPlaceholders(ReplaceFrom(cmd, 1, <<"{">> \o names[i] \o <<"}">>, values[i]),
                          names, values, i + 1)

(***************************************************************************)
(* The key reader.                                                          *)
(***************************************************************************)
\* the module get_key reads the keyboard with: termios (Unix) or msvcrt
\* (Windows); it is settled when the program is loaded
Platforms == {"termios", "msvcrt"}
VARIABLE platform

\* the value of `key` before any key was read, and what get_key gives while
\* it has returned no key
NoKey == <<"NONE">>

\* UIManager.get_key; bytes is what the keyboard delivers.  On the termios
\* path sys.stdin.read(2) follows ESC and returns once two more bytes are
\* there; on the msvcrt path a second getch() follows the prefix E0.  With
\* fewer bytes the read waits and get_key returns no key.
get_key(p, bytes) ==
    IF p = "termios"
    THEN IF bytes[1] = "ESC"
         THEN IF Len(bytes) < 3 THEN NoKey
              ELSE LET key == SubSeq(bytes, 1, 3)
                   IN  IF key = <<"ESC", "[", "A">> THEN <<"U", "P">>
                       ELSE IF key = <<"ESC", "[", "B">> THEN <<"D", "O", "W", "N">>
                       ELSE IF key = <<"ESC", "[", "C">> THEN <<"R", "I", "G", "H", "T">>
                       ELSE IF key = <<"ESC", "[", "D">> THEN <<"L", "E", "F", "T">>
                       ELSE key
         ELSE <<bytes[1]>>
    ELSE IF bytes[1] = "E0"
         THEN IF Len(bytes) < 2 THEN NoKey
              ELSE LET key == bytes[2]
                   IN  IF key = "H" THEN <<"U", "P">>
                       ELSE IF key = "P" THEN <<"D", "O", "W", "N">>
                       ELSE IF key = "M" THEN <<"R", "I", "G", "H", "T">>
                       ELSE IF key = "K" THEN <<"L", "E", "F", "T">>
                       ELSE <<key>>
         ELSE <<bytes[1]>>

\* the characters a user types
TypedChars ==
    {"a", "c", "d", "e", "i", "k", "l", "m", "n", "o", "p", "q", "r", "s", "t",
     "u", "v", "w", "x", "B", " ", "/", "0", "1", "3"}

\* what one call of get_key may find.  On either path: a typed character,
\* a control character, DEL, BS.  On the termios path the sequences that
\* start with ESC: the Escape key alone, three arrows, Shift+Tab.  On the
\* msvcrt path the Escape key and the sequences that start with E0: three
\* arrows.
KeyInputs(p) ==
    {<<c>> : c \in TypedChars \cup {"CR", "TAB", "ETX", "EOT", "EM", "DC4", "DEL",
                                    "BS"}}
        \cup (IF p = "termios"
              THEN {<<"ESC">>, <<"ESC", "[", "A">>, <<"ESC", "[", "B">>,
                    <<"ESC", "[", "D">>, <<"ESC", "[", "Z">>}
              ELSE {<<"ESC">>, <<"E0", "H">>, <<"E0", "P">>, <<"E0", "K">>})

\* the keys that get_key returns on each platform
KeysOn == [p \in Platforms |-> {get_key(p, b) : b \in KeyInputs(p)} \ {NoKey}]
TermiosKeys == KeysOn["termios"]
MsvcrtKeys == KeysOn["msvcrt"]

\* the keys that get_key returns on some platform, and on every platform
Keys == TermiosKeys \cup MsvcrtKeys
SharedKeys == TermiosKeys \cap MsvcrtKeys

\* get_key returns key k on the platform of the session; asked of the keys
\* that only one platform returns
Reads(k) == k \in KeysOn[platform]

KEY_UP == <<"U", "P">>
KEY_DOWN == <<"D", "O", "W", "N">>
KEY_LEFT == <<"L", "E", "F", "T">>
KEY_RIGHT == <<"R", "I", "G", "H", "T">>

\* the keys by the first test of a chain that can take them; but for the
\* Escape key and the keys that no test takes, every platform returns them
EnterKeys == SharedKeys \cap {<<"CR">>, <<"LF">>}
TabKeys == SharedKeys \cap {<<"TAB">>}
BackspaceKeys == SharedKeys \cap {<<"DEL">>, <<"BS">>}
EscapeKeys == Keys \cap {<<"ESC">>}
UpKeys == SharedKeys \cap {KEY_UP}
DownKeys == SharedKeys \cap {KEY_DOWN}
SlashKeys == SharedKeys \cap {<<"/">>}
DryRunKeys == SharedKeys \cap {<<"EOT">>}
CopyKeys == SharedKeys \cap {<<"EM">>}
CtrlCKeys == SharedKeys \cap {<<"ETX">>}
CtrlTKeys == SharedKeys \cap {<<"DC4">>}
DigitKeys == {k \in SharedKeys : IsDigit(k)}
PrintableKeys == {k \in SharedKeys : IsPrintable(k)}
OtherKeys == {k \in Keys : ~IsPrintable(k)} \ (EnterKeys \cup BackspaceKeys)
LetterKey(c) == SharedKeys \cap {<<c>>}

\* the value of `key` when KeyboardInterrupt was raised in the loop body
Interrupt == <<"SIGINT">>

(***************************************************************************)
(* The texts a user builds.  A printable key is pressed only where the text *)
(* it leaves in the active buffer begins one of these lines.                *)
(***************************************************************************)
\* command lines typed on the command screen
InputLines ==
    { <<"q">>,
      <<"a", " ", "/", "1">>,
      <<"c", "B", " ">>,
      <<"a", "d", "d", " ", "c", " ", "x">>,
      <<"t", "e", "m", "p", "l", "a", "t", "e", "s">>,
      KEY_LEFT }

\* command lines of a session that manages the stores from the command screen
ManageLines ==
    { <<"r", "e", "m", "o", "v", "e", " ", "a">>,
      <<"e", "d", "i", "t", " ", "a">>,
      <<"t", "e", "m", "p", "l", "a", "t", "e", " ", "k">>,
      <<"t", "e", "m", "p", "l", "a", "t", "e", " ", "k", " ", "x">>,
      <<"t", "e", "m", "p", "l", "a", "t", "e", " ", "r", "e", "m", "o", "v", "e", " ", "t">>,
      <<"t", "e", "m", "p", "l", "a", "t", "e", " ", "e", "d", "i", "t", " ", "t">>,
      <<"i", "m", "p", "o", "r", "t", " ", "x">>,
      <<"c", "l", "e", "a", "n", "u", "p">> }

\* command lines typed on the template screen
TemplateLines ==
    { <<"n", "e", "w", " ", "k", " ", "x">>,
      <<"x", "/", "1">> }

\* filter texts typed on either screen
FilterLines == { <<"a", "1">>, <<"a", "q">> }

Prefixes(lines) == UNION {{SubSeq(l, 1, n) : n \in 0..Len(l)} : l \in lines}

InputTexts == Prefixes(InputLines)
ManageTexts == Prefixes(ManageLines)
TemplateTexts == Prefixes(TemplateLines)
FilterTexts == Prefixes(FilterLines)

(***************************************************************************)
(* The state.                                                               *)
(***************************************************************************)
VARIABLES
    \* UIManager
    selected_index, input_buffer, input_mode, filter_mode, filter_text, show_preview,
    \* CommandManager.commands, CommandManager.stats["usage_count"],
    \* TemplateManager.templates
    commands, usage_count, templates,
    \* QLLauncher.current_mode
    current_mode,
    \* where control is: "command" (command_interactive_mode), "template"
    \* (template_interactive_mode called by template_interactive_mode_loop),
    \* "nested" (template_interactive_mode called by parse_input through
    \* show_template_list), "exited" (interactive_mode returned), "replaced"
    \* (os.execv replaced the process)
    pc,
    \* what made interactive_mode return or the process be replaced
    exit_by,
    \* the last dispatch: the key read, whether an exception reached a loop's
    \* handler, the alias handed to run_command_and_exit (the name handed to
    \* run_template), the arguments of _create_execution_script
    key, exc, run_request, launch,
    \* how the hand-off of the last dispatch ended: "none" when no script was
    \* asked for, else one of HandoffOutcomes
    handoff,
    \* the keys typed since '/' was pressed, while nothing else was pressed
    typed,
    \* how many times the stores were written
    writes,
    \* the terminal: its mode, and the mode get_key saved (old_settings)
    term, old_settings,
    \* where the process is between two keys, inside get_key, inside
    \* _create_execution_script, at os.execv, or, once replaced, inside the
    \* generated script
    at,
    \* the directory config_dir / 'tmp': whether it exists and its files
    tmp,
    \* the launch under way: the arguments of _create_execution_script, the
    \* value of SHELL and the resolved shell, the path of the script, the
    \* steps done, the command of the body the script is at, whether the
    \* body failed
    job,
    \* what the generated script did: the steps of its body with their
    \* outcome, its banner, the signals it received
    out,
    \* the last call of a sweep or of os.execv: its kind, the count it
    \* returned, the arguments of os.execv
    last,
    \* the text that the filter text is matched against (the `text` of fuzzy_match), and what
    \* fuzzy_match(text, filter_text) returned, once it was called
    match_text, matched,
    \* the sweeps under way, one launcher process each: which sweep it is,
    \* the line of the loop it is at, the paths of glob.glob still to visit,
    \* its count, and the paths it removed and the paths it gave up on
    sweeps,
    \* the files that open() refuses and those that os.unlink refuses
    perms,
    \* the scripts that a shell is executing
    running

ui == <<selected_index, input_buffer, input_mode, filter_mode, filter_text, show_preview>>
stores == <<commands, usage_count, templates, writes>>
vars == <<selected_index, input_buffer, input_mode, filter_mode, filter_text,
          show_preview, commands, usage_count, templates, current_mode, pc,
          exit_by, key, exc, run_request, launch, typed, writes, handoff, platform>>
\* the terminal, the script directory and the launch
iovars == <<term, old_settings, at, tmp, job, out, last>>
\* one call of fuzzy_match
matchvars == <<match_text, matched>>
\* the sweeps of the script directory, file by file
sweepvars == <<sweeps, perms, running>>

Aliases == {<<"a">>, <<"c", "B">>, <<"c">>, <<"d">>}
NoAlias == <<"NONE">>
NoLaunch == [alias |-> <<>>, command |-> <<>>, type |-> "none"]
NoText == <<"NONE">>

\* the list the command screen shows
display_commands == get_filtered_commands(commands, filter_text)
\* the list the template screen shows
display_templates == get_filtered_templates(templates, filter_text)

\* the loop waits for a key: no read, no launch and no sweep under way; the
\* script directory is there, empty
NoJob == [alias |-> <<>>, command |-> <<>>, type |-> "none", env |-> <<>>,
          shell |-> <<>>, path |-> <<>>, trail |-> <<>>, next |-> 0, failed |-> FALSE,
          trap |-> FALSE]
NoCall == [op |-> "none", count |-> 0, argv |-> <<>>, refused |-> {}]
IoIdle ==
    /\ term = "cooked"
    /\ old_settings = "none"
    /\ at = "loop"
    /\ tmp = [exists |-> TRUE, files |-> {}]
    /\ job = NoJob
    /\ out = <<>>
    /\ last = NoCall

\* QLLauncher.__init__ with a command file of files
ScreensInitFrom(files) ==
    /\ selected_index = 0
    /\ input_buffer = <<>>
    /\ input_mode = FALSE
    /\ filter_mode = FALSE
    /\ filter_text = <<>>
    /\ show_preview = TRUE
    /\ commands \in files
    /\ usage_count = [a \in Aliases |-> 0]
    /\ templates \in InitTemplates
    /\ current_mode = "command"
    /\ pc = "command"
    /\ exit_by = "none"
    /\ key = NoKey
    /\ exc = FALSE
    /\ run_request = NoAlias
    /\ launch = NoLaunch
    /\ typed = NoText
    /\ writes = 0
    /\ handoff = "none"

\* QLLauncher.__init__
ScreensInit == ScreensInitFrom(InitCommands)

\* no call of fuzzy_match is looked at
MatchIdle ==
    /\ match_text = <<>>
    /\ matched = <<>>

\* the launcher processes that may sweep the script directory
Sweepers == {1, 2}
\* a process that has not started a sweep
NoSweep == [kind |-> "none", at |-> "idle", todo |-> <<>>, cleaned |-> 0,
            removed |-> {}, failed |-> {}]
\* no sweep is looked at file by file
SweepIdle ==
    /\ sweeps = [i \in Sweepers |-> NoSweep]
    /\ perms = [unreadable |-> {}, undeletable |-> {}]
    /\ running = {}

\* a session on the termios path
Init == platform = "termios" /\ ScreensInit /\ IoIdle /\ MatchIdle /\ SweepIdle

\* a session on the msvcrt path
WinInit == platform = "msvcrt" /\ ScreensInit /\ IoIdle /\ MatchIdle /\ SweepIdle

\* the ways _create_execution_script and os.execv can end: the script was
\* not created, os.execv raised OSError, os.execv replaced the process
HandoffOutcomes == {"script_failed", "exec_failed", "replaced"}

\* what a dispatch leaves in the record of the last dispatch; the dispatch
\* that asked for a script says which way its hand-off ended
Observe(k, e, rr, l, h) ==
    /\ key' = k
    /\ exc' = e
    /\ run_request' = rr
    /\ launch' = l
    /\ handoff' = h
    /\ platform' = platform
    /\ UNCHANGED <<matchvars, sweepvars>>

\* the script directory, the launch, the place of the process and the last
\* call that a dispatch leaves; get_key has put the terminal back
PutIo(io) ==
    /\ tmp' = io.tmp
    /\ job' = io.job
    /\ at' = io.at
    /\ last' = io.last
    /\ UNCHANGED <<term, old_settings, out>>

\* what a dispatch leaves that asks for no script and calls no sweep
NoIo == [tmp |-> tmp, job |-> job, at |-> "loop", last |-> NoCall]

\* a dispatch that neither requests a run nor is part of typing a filter;
\* get_key returned key k, or raised (NoKey)
Plain(k, e) ==
    /\ Observe(k, e, NoAlias, NoLaunch, "none")
    /\ typed' = NoText
    /\ PutIo([NoIo EXCEPT !.last.op = IF k = NoKey THEN "read_error" ELSE "none"])

\* the hand-off of a run that returns left a file in the script directory
LeavesFile(run) == run.how # "replaced" /\ run.io.tmp.files \ tmp.files # {}

\* the writes made after a run of a template: a file left behind is one
WritesAfter(run) == IF LeavesFile(run) THEN writes + 1 ELSE writes

\* a dispatch that ends the loop without a run
PlainEnd(k) ==
    /\ Observe(k, FALSE, NoAlias, NoLaunch, "none")
    /\ typed' = NoText
    /\ PutIo([NoIo EXCEPT !.at = "exited"])

\* QLLauncher.reset_ui_state, and the first lines of template_interactive_mode
reset_ui_state ==
    /\ selected_index' = 0
    /\ filter_mode' = FALSE
    /\ filter_text' = <<>>
    /\ input_mode' = FALSE
    /\ input_buffer' = <<>>

\* a handler that ends the loop where the code has `continue`
OnExceptionEnds(where) == "exited"

\* `except Exception: continue` of both loops: where control is afterwards
OnException(where) == where

\* the two lines that follow a call of parse_input and of
\* parse_template_input; an exception raised in the call skips them
ClearInput(skipped) ==
    IF skipped
    THEN UNCHANGED <<input_buffer, input_mode>>
    ELSE input_buffer' = <<>> /\ input_mode' = FALSE

\* a '/' branch without the test of input_mode
SlashAppliesInAnyMode(k) == k = <<"/">>

\* the '/' branch of both loops is taken
SlashApplies(k) == k = <<"/">> /\ ~input_mode

\* a '/' branch that leaves the selection where it was
EnterFilterModeKeepsSelection ==
    /\ filter_mode' = TRUE
    /\ filter_text' = <<>>
    /\ UNCHANGED <<selected_index, input_buffer, input_mode>>

\* the '/' branch of both loops
EnterFilterMode ==
    /\ filter_mode' = TRUE
    /\ filter_text' = <<>>
    /\ selected_index' = 0
    /\ UNCHANGED <<input_buffer, input_mode>>

\* a Backspace branch that leaves Filter mode as soon as the text is empty
BackspaceExitsEmptiedFilter ==
    IF filter_mode
    THEN /\ IF filter_text # <<>>
            THEN /\ filter_text' = DropLast(filter_text)
                 /\ selected_index' = 0
                 /\ filter_mode' = (DropLast(filter_text) # <<>>)
            ELSE /\ filter_mode' = FALSE
                 /\ UNCHANGED <<filter_text, selected_index>>
         /\ UNCHANGED <<input_buffer, input_mode>>
    ELSE /\ IF input_mode /\ input_buffer # <<>>
            THEN /\ input_buffer' = DropLast(input_buffer)
                 /\ input_mode' = (DropLast(input_buffer) # <<>>)
            ELSE UNCHANGED <<input_buffer, input_mode>>
         /\ UNCHANGED <<filter_mode, filter_text, selected_index>>

\* the Backspace branch of both loops
Backspace ==
    IF filter_mode
    THEN /\ IF filter_text # <<>>
            THEN /\ filter_text' = DropLast(filter_text)
                 /\ selected_index' = 0
                 /\ filter_mode' = filter_mode
            ELSE /\ filter_mode' = FALSE
                 /\ UNCHANGED <<filter_text, selected_index>>
         /\ UNCHANGED <<input_buffer, input_mode>>
    ELSE /\ IF input_mode /\ input_buffer # <<>>
            THEN /\ input_buffer' = DropLast(input_buffer)
                 /\ input_mode' = (DropLast(input_buffer) # <<>>)
            ELSE UNCHANGED <<input_buffer, input_mode>>
         /\ UNCHANGED <<filter_mode, filter_text, selected_index>>

\* the Escape branch of both loops, but for leaving the template screen
EscapeClears ==
    IF filter_mode
    THEN /\ filter_mode' = FALSE
         /\ filter_text' = <<>>
         /\ selected_index' = 0
         /\ UNCHANGED <<input_buffer, input_mode>>
    ELSE /\ IF input_mode
            THEN input_mode' = FALSE /\ input_buffer' = <<>>
            ELSE UNCHANGED <<input_buffer, input_mode>>
         /\ UNCHANGED <<filter_mode, filter_text, selected_index>>

\* the last branch of both loops: a printable key goes to the active buffer
AppendPrintable(k) ==
    IF filter_mode
    THEN /\ filter_text' = filter_text \o k
         /\ selected_index' = 0
         /\ UNCHANGED <<input_buffer, input_mode, filter_mode>>
    ELSE /\ input_mode' = TRUE
         /\ input_buffer' = (IF input_mode THEN input_buffer ELSE <<>>) \o k
         /\ UNCHANGED <<filter_text, selected_index, filter_mode>>

\* quick select reaches the first nine entries
QuickSelectLimit == 9

\* a quick-select test without the lower bound of `0 <= num`
QuickSelectsUnchecked(num, shown) == num < Len(shown) /\ num < QuickSelectLimit

\* the test of the quick-select branch of both loops: num is int(key) - 1
QuickSelects(num, shown) == 0 <= num /\ num < Len(shown) /\ num < QuickSelectLimit

\* max(0, selected_index - 1)
MoveUp == IF selected_index - 1 > 0 THEN selected_index - 1 ELSE 0
\* a Down branch without the min
MoveDownUnclamped(shown) == selected_index + 1

\* min(len(shown) - 1, selected_index + 1)
MoveDown(shown) ==
    IF Len(shown) - 1 < selected_index + 1 THEN Len(shown) - 1 ELSE selected_index + 1

\* the selection after a successful remove
ClampAfterRemove(shown) ==
    IF selected_index >= Len(shown)
    THEN (IF Len(shown) - 1 > 0 THEN Len(shown) - 1 ELSE 0)
    ELSE selected_index

\* the selection is an index of the shown list
SelectionInRange(shown) == 0 <= selected_index /\ selected_index < Len(shown)

(***************************************************************************)
(* The generated script and the script directory.  A script's text is a    *)
(* sequence whose elements are the fixed pieces of the template, each one  *)
(* element, and the characters of the texts put between them.  No fixed     *)
(* piece next to an interpolated text ends or starts with a part of the     *)
(* marker, so the marker is in a script's text exactly where it is in this  *)
(* sequence.                                                                *)
(***************************************************************************)
\* '# QL Command Executor'
Marker ==
    <<"#", " ", "Q", "L", " ", "C", "o", "m", "m", "a", "n", "d", " ",
      "E", "x", "e", "c", "u", "t", "o", "r">>

BinBash == <<"/bin/bash">>
BinZsh == <<"/bin/zsh">>
\* SHELL is not in the environment
Unset == <<"UNSET">>
\* the values of SHELL, and the paths that exist
EnvShells == {Unset, BinZsh, <<"/opt/fish">>}
ExistingPaths == {BinBash, BinZsh}

\* os.environ.get('SHELL', '/bin/bash'), '/bin/bash' if that path is missing
ResolvedShell(env) ==
    LET shell == IF env = Unset THEN BinBash ELSE env
    IN  IF shell \in ExistingPaths THEN shell ELSE BinBash

\* the chain branch of _generate_script_content
ChainScript(alias, command, shell) ==
    <<"#!/bin/bash LF">> \o Marker
        \o <<" - Chain Command LF",
             "# Auto-cleanup: this script will self-destruct LF",
             "trap 'rm -f $0 2>/dev/null || true' EXIT INT TERM LF",
             "cd / LF",
             "echo Running chain: ">> \o alias
        \o <<" LF",
             "echo Working directory: $(pwd) LF",
             "echo ---- LF",
             "set -e LF",
             "set -o pipefail LF",
             "echo Executing chain command LF">> \o command
        \o <<"LF",
             "echo ---- LF",
             "echo Chain '">> \o alias
        \o <<"' completed successfully LF",
             "# Force cleanup before exec LF",
             "rm -f $0 2>/dev/null || true LF",
             "exec ">> \o shell \o <<"LF">>

\* the link branch of _generate_script_content
LinkScript(command, shell) ==
    <<"#!/bin/bash LF">> \o Marker
        \o <<"LF",
             "# Auto-cleanup: this script will self-destruct LF",
             "trap 'rm -f $0 2>/dev/null || true' EXIT INT TERM LF",
             "cd / LF",
             "echo Running: ">> \o command
        \o <<" LF",
             "echo Working directory: $(pwd) LF",
             "echo ---- LF">> \o command
        \o <<"LF",
             "exit_code=$? LF",
             "echo ---- LF",
             "if [ $exit_code -eq 0 ]; then LF",
             "echo Command completed successfully LF",
             "else LF",
             "echo Command failed with exit code $exit_code LF",
             "fi LF",
             "# Force cleanup before exec LF",
             "rm -f $0 2>/dev/null || true LF",
             "exec ">> \o shell \o <<"LF">>

\* a script text whose first comment line does not start with the marker
ScriptWithTitleOnly(alias, command, cmd_type, shell) ==
    LET text == IF cmd_type = "chain" THEN ChainScript(alias, command, shell)
                ELSE LinkScript(command, shell)
    IN  <<text[1], "# Command Executor">> \o SubSeq(text, 2 + Len(Marker), Len(text))

\* QLLauncher._generate_script_content
_generate_script_content(alias, command, cmd_type, shell) ==
    IF cmd_type = "chain" THEN ChainScript(alias, command, shell)
    ELSE LinkScript(command, shell)

\* tempfile.NamedTemporaryFile(suffix='_ql.sh', dir=script_dir): 'tmp', a
\* random part, the suffix
ScriptName(r) == <<"tmp", r, "_ql.sh">>

\* glob.glob(str(script_dir / '*_ql.sh'))
MatchesPattern(name) == name # <<>> /\ name[Len(name)] = "_ql.sh"

\* '# QL Command Executor' in content
HasMarker(content) == IsSubstring(Marker, content)

\* the age above which cleanup_old_scripts removes a script, in seconds
SweepAge == 300

\* the names that glob.glob(str(script_dir / '*_ql.sh')) gives
Candidates(files) == {f.name : f \in {g \in files : MatchesPattern(g.name)}}

\* the names of glob.glob whose age is above SweepAge: the files that
\* cleanup_old_scripts opens
OldCandidates(files) ==
    {f.name : f \in {g \in files : MatchesPattern(g.name) /\ g.age > SweepAge}}

\* a sweep that does not read the files
SweepByNameAndAge(files, refused) ==
    {f \in files : ~(/\ MatchesPattern(f.name) /\ f.name \notin refused
                     /\ f.age > SweepAge)}

\* QLLauncher.cleanup_old_scripts: the files it leaves.  refused: the names
\* of the files at which open, read or os.unlink raises OSError;
\* `except (OSError, IOError): pass` of the loop body passes such a file by
\* and the loop goes on
cleanup_old_scripts(files, refused) ==
    {f \in files : ~(/\ MatchesPattern(f.name) /\ f.name \notin refused
                     /\ f.age > SweepAge /\ HasMarker(f.content))}

\* a sweep of all scripts that counts the files it looked at
ForceCleanupCountsCandidates(files, refused) ==
    [files |-> {f \in files : ~(/\ MatchesPattern(f.name) /\ f.name \notin refused
                                /\ HasMarker(f.content))},
     cleaned |-> Cardinality({f \in files : MatchesPattern(f.name)})]

\* QLLauncher.force_cleanup_all_scripts: the files it leaves and the count
\* it returns.  refused: the names of the files at which open, read or
\* os.unlink raises OSError; `except (OSError, IOError): pass` of the loop
\* body passes such a file by, uncounted, and the loop goes on
force_cleanup_all_scripts(files, refused) ==
    LET removed == {f \in files : /\ MatchesPattern(f.name) /\ f.name \notin refused
                                  /\ HasMarker(f.content)}
    IN  [files |-> files \ removed, cleaned |-> Cardinality(removed)]

\* the number of commands of an && list
StepCount(command) ==
    1 + Cardinality({i \in 1..Len(Split(command)) : Split(command)[i] = <<"&", "&">>})

\* an os.execv that hands the script to the shell as a command string
ExecCallByString(script_path) == <<BinBash, <<BinBash, "-c", script_path>>>>

\* os.execv('/bin/bash', ['/bin/bash', script_path]): the file and the
\* argument list
ExecCall(script_path) == <<BinBash, <<BinBash, script_path>>>>

\* the steps of _create_execution_script and the os.execv of its caller in
\* an order that makes the file executable before it is written
NextStepChmodFirst(step) ==
    CASE step = "mkdir" -> "create"
      [] step = "create" -> "chmod"
      [] step = "chmod" -> "write"
      [] step = "write" -> "close"
      [] step = "close" -> "execv"

\* the steps of _create_execution_script and the os.execv of its caller, in
\* the order of the code
NextStep(step) ==
    CASE step = "mkdir" -> "create"
      [] step = "create" -> "write"
      [] step = "write" -> "close"
      [] step = "close" -> "chmod"
      [] step = "chmod" -> "execv"

CreationSteps == {"mkdir", "create", "write", "close", "chmod"}

\* a file of the script directory
File(name, content, age, executable, origin) ==
    [name |-> name, content |-> content, age |-> age, executable |-> executable,
     open |-> FALSE, origin |-> origin]

\* the files of the directory without the one named path
Unlink(files, path) == {f \in files : f.name # path}

\* a trap that removes nothing
TrapAbsent(files, path) == files

\* trap 'rm -f "$0" 2>/dev/null || true' EXIT INT TERM, once the shell has
\* run that line: what the trap does when the shell exits or is signalled
TrapRemoves(files, path) == Unlink(files, path)

\* a finally clause that is passed by when the read raises
RestoredOnReturnOnly(how, saved, now) == IF how = "key" THEN saved ELSE now

\* finally: termios.tcsetattr(fd, termios.TCSADRAIN, old_settings)
Restored(how, saved, now) == saved

(***************************************************************************)
(* The hand-off: _create_execution_script and the os.execv of its caller.   *)
(***************************************************************************)
\* the launch that a and env ask for
NewJob(a, env) ==
    [alias |-> a.alias, command |-> a.command, type |-> a.type, env |-> env,
     shell |-> ResolvedShell(env), path |-> <<>>, trail |-> <<>>, next |-> 0,
     failed |-> FALSE, trap |-> FALSE]

\* the script directory t after one step of _create_execution_script for
\* the launch j; ok: the step does not raise; r: the random part of the name.
\* write fills the buffer of the file object and close writes the buffer to
\* the file.  A write that raises leaves the function: the file object is
\* dropped and closed with nothing written, the file stays.
AfterStep(t, j, step, ok, r) ==
    CASE step = "mkdir" -> [t EXCEPT !.exists = @ \/ ok]
      [] step = "create" ->
           IF ok
           THEN [t EXCEPT !.files = @ \cup
                   {[File(ScriptName(r), <<>>, 0, FALSE, "launch") EXCEPT !.open = TRUE]}]
           ELSE t
      [] step = "write" ->
           [t EXCEPT !.files =
               {IF f.name = j.path /\ ~ok THEN [f EXCEPT !.open = FALSE] ELSE f : f \in @}]
      [] step = "close" ->
           [t EXCEPT !.files =
               {IF f.name = j.path
                THEN [f EXCEPT !.open = FALSE,
                               !.content =
                                   IF ok
                                   THEN _generate_script_content(j.alias, j.command,
                                                                 j.type, j.shell)
                                   ELSE @]
                ELSE f : f \in @}]
      [] step = "chmod" ->
           [t EXCEPT !.files =
               {IF f.name = j.path /\ ok
                THEN [f EXCEPT !.executable = TRUE] ELSE f : f \in @}]

\* the launch j after one step of _create_execution_script: a step that
\* raises OSError ends in the except clause, which returns None
JobAfterStep(j, step, ok, r) ==
    IF ~ok THEN NoJob
    ELSE [j EXCEPT !.trail = Append(@, step),
                   !.path = IF step = "create" THEN ScriptName(r) ELSE @]

\* the random part of the name of a new script
RandomParts == {"1"}

\* the step of a hand-off that raises OSError, "none" when os.execv replaces
\* the process
FailurePoints == CreationSteps \cup {"execv", "none"}

\* how a hand-off ends, by the step that raises
HandoffOutcome(fails) ==
    IF fails \in CreationSteps THEN "script_failed"
    ELSE IF fails = "execv" THEN "exec_failed" ELSE "replaced"

\* the step can raise and the steps before it can succeed: mkdir(exist_ok)
\* of a directory that exists does not raise, NamedTemporaryFile gives a
\* name that is not in use
CanFailAt(t, fails, r) ==
    /\ fails = "mkdir" => ~t.exists
    /\ fails \notin {"mkdir", "create"} => \A f \in t.files : f.name # ScriptName(r)

RECURSIVE CreateFrom(_, _, _, _, _)
\* _create_execution_script from step on: the directory and the launch it
\* leaves, and the step the caller is at
CreateFrom(t, j, step, fails, r) ==
    IF step = "execv" THEN [tmp |-> t, job |-> j, at |-> "execv"]
    ELSE IF step = fails
    THEN [tmp |-> AfterStep(t, j, step, FALSE, r), job |-> NoJob, at |-> "loop"]
    ELSE CreateFrom(AfterStep(t, j, step, TRUE, r), JobAfterStep(j, step, TRUE, r),
                    NextStep(step), fails, r)

\* _create_execution_script(a), then os.execv and its except clause (unlink):
\* the directory and the launch they leave, where the process is, the call
\* of os.execv if it was reached
HandOff(t, a, env, r, fails) ==
    LET c == CreateFrom(t, NewJob(a, env), "mkdir", fails, r)
    IN  IF c.at # "execv"
        THEN [tmp |-> c.tmp, job |-> NoJob, at |-> "loop", last |-> NoCall]
        ELSE [tmp |-> IF fails = "execv"
                      THEN [c.tmp EXCEPT !.files = Unlink(@, c.job.path)]
                      ELSE c.tmp,
              job |-> IF fails = "execv" THEN NoJob
                      ELSE [c.job EXCEPT !.trail = Append(@, "execv"), !.next = 1],
              at |-> IF fails = "execv" THEN "loop" ELSE "body",
              last |-> [op |-> "execv", count |-> 0, argv |-> ExecCall(c.job.path),
                        refused |-> {}]]

\* how a prompt ends: input() returns, or raises EOFError or
\* KeyboardInterrupt
PromptEnds == {"answered", "eof", "interrupt"}

\* the ways the hand-off of the launch a can go from the directory t: the
\* step that raises, the shell of the environment and the random part of the
\* name are drawn, and ends: how the input() after a failure (in the except
\* clause of _create_execution_script, or after the failed os.execv) ends.
\* how: "replaced", "raised" (EOFError), "interrupted" (KeyboardInterrupt)
\* or the failure after which the caller returns
LaunchesOf(t, a) ==
    LET handoffs ==
            UNION {{[fails |-> fails, io |-> HandOff(t, a, env, r, fails)] :
                        fails \in {f \in FailurePoints : CanFailAt(t, f, r)},
                        env \in EnvShells} : r \in RandomParts}
    IN  {[launch |-> a,
          how |-> IF h.fails # "none" /\ ends = "eof" THEN "raised"
                  ELSE IF h.fails # "none" /\ ends = "interrupt" THEN "interrupted"
                  ELSE HandoffOutcome(h.fails),
          outcome |-> HandoffOutcome(h.fails),
          io |-> h.io] : h \in handoffs, ends \in PromptEnds}

\* cleanup_old_scripts as run_command_and_exit calls it: the directory it
\* leaves and the call, with the number of files it removed and the names
\* of the files that raised
SweepOld(t, refused) ==
    [tmp |-> [t EXCEPT !.files = cleanup_old_scripts(@, refused)],
     last |-> [op |-> "sweep",
               count |-> Cardinality(t.files \ cleanup_old_scripts(t.files, refused)),
               argv |-> <<>>, refused |-> refused]]

\* force_cleanup_all_scripts as the `cleanup` line calls it: the directory it
\* leaves and the call with the count it returned and the names of the
\* files that raised
SweepAllOf(t, refused) ==
    LET r == IF t.exists THEN force_cleanup_all_scripts(t.files, refused)
             ELSE [files |-> t.files, cleaned |-> 0]
    IN  [tmp |-> [t EXCEPT !.files = r.files],
         last |-> [op |-> "cleanup", count |-> r.cleaned, argv |-> <<>>,
                   refused |-> refused]]
(***************************************************************************)
(* Running a stored command.                                                *)
(***************************************************************************)
\* a move to the front that puts the former first entry where the entry was
MoveToFrontBySwap(cmds, alias) ==
    IF HasAlias(cmds, alias)
    THEN LET i == IndexOfAlias(cmds, alias)
         IN  [k \in 1..Len(cmds) |->
                 IF k = 1 THEN cmds[i] ELSE IF k = i THEN cmds[1] ELSE cmds[k]]
    ELSE cmds

\* QLLauncher.move_command_to_front
move_command_to_front(cmds, alias) ==
    IF HasAlias(cmds, alias)
    THEN LET i == IndexOfAlias(cmds, alias)
         IN  <<cmds[i]>> \o SubSeq(cmds, 1, i - 1) \o SubSeq(cmds, i + 1, Len(cmds))
    ELSE cmds

\* CommandManager.update_usage_stats
update_usage_stats(usage, alias) == [usage EXCEPT ![alias] = @ + 1]

\* QLLauncher.run_command_and_exit(alias) for a stored alias, up to the
\* hand-off: the sweep (refused: the names of the files that raise in it) and
\* the two writes of the stores, then the safety check.  For a dangerous body
\* it ends "raised": UIManager.show_message_and_pause reads self.ui, which a
\* UIManager has not (AttributeError).
run_command_and_exit(alias, refused) ==
    LET swept == SweepOld(tmp, refused)
        cmds1 == move_command_to_front(commands, alias)
        usage1 == update_usage_stats(usage_count, alias)
        cmd_data == cmds1[1]
        dangerous == is_dangerous_command(cmd_data.command)
    IN  [cmds |-> cmds1, usage |-> usage1,
         launch |-> IF dangerous THEN NoLaunch
                    ELSE [alias |-> alias, command |-> cmd_data.command,
                          type |-> cmd_data.type],
         how |-> IF dangerous THEN "raised" ELSE "launch",
         outcome |-> "none",
         io |-> [tmp |-> swept.tmp, job |-> NoJob, at |-> "loop", last |-> swept.last]]

\* the ways run_command_and_exit(alias) can go: the stores, the launch and
\* the script directory it leaves, and how it ends
RunsOfCommand(alias) ==
    UNION {LET run == run_command_and_exit(alias, refused)
           IN  IF run.how # "launch" THEN {run}
               ELSE {[cmds |-> run.cmds, usage |-> run.usage, launch |-> l.launch,
                      how |-> l.how, outcome |-> l.outcome,
                      io |-> [l.io EXCEPT !.last = IF @ = NoCall THEN run.io.last
                                                   ELSE @]] :
                         l \in LaunchesOf(run.io.tmp, run.launch)} :
               refused \in SUBSET OldCandidates(tmp.files)}

\* a run from the command loop; clear: the caller clears the input buffer
\* after a normal return (the caller of parse_input does).  A run that ends
\* "interrupted" ends the loop: `except KeyboardInterrupt: return False`
RunFromCommandLoop(k, alias, clear) ==
    /\ writes < MaxWrites
    /\ \E run \in RunsOfCommand(alias) :
            /\ commands' = run.cmds
            /\ usage_count' = run.usage
            /\ writes' = writes + 1
            /\ Observe(k, run.how = "raised", alias, run.launch, run.outcome)
            /\ typed' = NoText
            /\ PutIo(IF run.how = "interrupted" THEN [run.io EXCEPT !.at = "exited"]
                     ELSE run.io)
            /\ IF run.how = "replaced"
               THEN /\ pc' = "replaced"
                    /\ exit_by' = "exec"
                    /\ UNCHANGED <<input_buffer, input_mode>>
               ELSE IF run.how = "interrupted"
               THEN /\ pc' = "exited"
                    /\ exit_by' = "interrupt"
                    /\ UNCHANGED <<input_buffer, input_mode>>
               ELSE /\ pc' = (IF run.how = "raised" THEN OnException(pc) ELSE pc)
                    /\ exit_by' = exit_by
                    /\ ClearInput(~clear \/ run.how = "raised")
    /\ UNCHANGED <<selected_index, filter_mode, filter_text, show_preview,
                   templates, current_mode>>
(***************************************************************************)
(* Templates: running, saving, editing and removing.                        *)
(***************************************************************************)
\* the identifier run_direct_command hands to _create_execution_script
DirectAlias == <<"d", "i", "r", "e", "c", "t">>

\* what a user answers at a placeholder prompt
PlaceholderValues == {<<>>, <<" ">>, <<"z">>}

\* QLLauncher.run_template(name) up to run_direct_command: the launch it
\* asks for.  value is the answer at every placeholder prompt, ends: how the
\* first placeholder prompt ends
run_template(tpls, name, value, ends) ==
    IF ~HasTemplate(tpls, name)
    THEN [launch |-> NoLaunch, how |-> "not_found", outcome |-> "none", io |-> NoIo]
    ELSE LET template == tpls[IndexOfTemplate(tpls, name)]
             template_command == template.template
             placeholders == extract_placeholders(template_command)
             values == [i \in 1..Len(placeholders) |-> Strip(value)]
             final_command ==
                 FillPlaceholders(template_command, placeholders, values, 1)
         IN  IF placeholders # <<>> /\ ends = "eof"
             THEN [launch |-> NoLaunch, how |-> "raised", outcome |-> "none",
                   io |-> NoIo]
             ELSE IF placeholders # <<>> /\ ends = "interrupt"
             THEN [launch |-> NoLaunch, how |-> "interrupted", outcome |-> "none",
                   io |-> NoIo]
             ELSE IF placeholders # <<>> /\ Strip(value) = <<>>
             THEN [launch |-> NoLaunch, how |-> "cancelled", outcome |-> "none",
                   io |-> NoIo]
             ELSE [launch |-> [alias |-> DirectAlias, command |-> final_command,
                               type |-> "link"],
                   how |-> "launch", outcome |-> "none", io |-> NoIo]

\* the ways run_template(name) can go, run_direct_command included, which
\* calls no sweep: the launch and the script directory it leaves, and how it
\* ends
RunsOfTemplate(tpls, name) ==
    LET starts == {run_template(tpls, name, value, ends) :
                       value \in PlaceholderValues, ends \in PromptEnds}
    IN  UNION {IF run.how = "launch" THEN LaunchesOf(tmp, run.launch) ELSE {run} :
                   run \in starts}

\* f"Template: {name}"
TemplateLabel(name) == <<"T", "e", "m", "p", "l", "a", "t", "e", ":", " ">> \o name

\* the characters of [a-zA-Z0-9_-] among the characters of this model
NameChars == (TypedChars \ {" ", "/"}) \cup {"_", "-"}

\* re.match(r'^[a-zA-Z0-9_-]+$', name)
IsValidName(name) == name # <<>> /\ \A i \in 1..Len(name) : name[i] \in NameChars

\* TemplateManager.save_template when it stores the entry: an existing name
\* keeps its place, a new one goes to the end
save_template(tpls, name, command, description) ==
    LET entry == [name |-> name, template |-> command,
                  description |-> IF Strip(description) # <<>> THEN Strip(description)
                                  ELSE TemplateLabel(name),
                  placeholders |-> extract_placeholders(command)]
    IN  IF HasTemplate(tpls, name)
        THEN [tpls EXCEPT ![IndexOfTemplate(tpls, name)] = entry]
        ELSE Append(tpls, entry)

\* what a user answers at the two prompts of edit_template
EditAnswers == {<<>>}

\* TemplateManager.edit_template for a stored name
edit_template(tpls, name, new_command, new_description) ==
    LET i == IndexOfTemplate(tpls, name)
        current_command ==
            IF Strip(new_command) # <<>> THEN Strip(new_command) ELSE tpls[i].template
        current_description ==
            IF Strip(new_description) # <<>> THEN Strip(new_description)
            ELSE tpls[i].description
    IN  [tpls EXCEPT ![i] = [name |-> name, template |-> current_command,
                             description |-> current_description,
                             placeholders |-> extract_placeholders(current_command)]]

\* TemplateManager.remove_template when the user confirms
remove_template(tpls, name) ==
    LET i == IndexOfTemplate(tpls, name)
    IN  SubSeq(tpls, 1, i - 1) \o SubSeq(tpls, i + 1, Len(tpls))

(***************************************************************************)
(* The command screen: QLLauncher.command_interactive_mode.  One action per  *)
(* branch of the loop body; an action is the whole iteration (get_key, the   *)
(* branch taken, the handler and what it calls).                            *)
(***************************************************************************)
\* the branch of the if / elif chain of command_interactive_mode that key k takes
CmdBranch(k) ==
    LET normal == ~input_mode /\ ~filter_mode
        shown == display_commands # <<>>
    IN  IF k = <<"CR">> \/ k = <<"LF">> THEN "enter"
        ELSE IF k = <<"TAB">> /\ input_mode THEN "tab"
        ELSE IF IsDigit(k) /\ normal THEN "digit"
        ELSE IF k = <<"p">> /\ normal THEN "preview"
        ELSE IF k = KEY_UP /\ normal /\ shown THEN "up"
        ELSE IF k = KEY_DOWN /\ normal /\ shown THEN "down"
        ELSE IF k = <<"EOT">> /\ normal /\ shown THEN "dry_run"
        ELSE IF k = <<"EM">> /\ normal /\ shown THEN "copy"
        ELSE IF SlashApplies(k) THEN "slash"
        ELSE IF k = <<"DEL">> \/ k = <<"BS">> THEN "backspace"
        ELSE IF k = <<"ESC">> THEN "escape"
        ELSE IF k = <<"ETX">> THEN "ctrl_c"
        ELSE IF k = <<"DC4">> THEN "ctrl_t"
        ELSE IF IsPrintable(k) THEN "printable"
        ELSE "none"

\* the keys remembered since '/', after key k was appended to the filter text
TypedAppend(k) ==
    IF typed # NoText /\ Len(typed) + Len(k) <= MaxTyped THEN typed \o k ELSE NoText

\* the branch of parse_input that a committed line takes
ParseBranch(line) ==
    LET parts == Split(line)
        command == Lower(parts[1])
    IN  IF command \in {<<"q", "u", "i", "t">>, <<"q">>, <<"e", "x", "i", "t">>} THEN "quit"
        ELSE IF command = <<"h", "e", "l", "p">> THEN "message"
        ELSE IF command = <<"t", "e", "m", "p", "l", "a", "t", "e", "s">> THEN "templates"
        ELSE IF command = <<"a", "d", "d">>
             THEN IF Len(parts) < 3 THEN "message" ELSE "add"
        ELSE IF command = <<"c", "h", "a", "i", "n">>
             THEN IF Len(parts) < 3 THEN "message" ELSE "chain"
        ELSE IF command = <<"e", "d", "i", "t">>
             THEN IF Len(parts) < 2 THEN "message" ELSE "edit"
        ELSE IF command = <<"r", "e", "m", "o", "v", "e">>
             THEN IF Len(parts) < 2 THEN "message" ELSE "remove"
        ELSE IF command = <<"t", "e", "m", "p", "l", "a", "t", "e">>
             THEN IF Len(parts) = 1 THEN "templates"
                  ELSE IF Len(parts) = 2 THEN "template_run"
                  ELSE IF parts[2] = <<"e", "d", "i", "t">> THEN "template_edit"
                  ELSE IF parts[2] = <<"r", "e", "m", "o", "v", "e">>
                  THEN "template_remove"
                  ELSE "template_save"
        ELSE IF command = <<"e", "x", "p", "o", "r", "t">> THEN "message"
        ELSE IF command = <<"i", "m", "p", "o", "r", "t">>
             THEN IF Len(parts) < 2 THEN "message" ELSE "import"
        ELSE IF command = <<"c", "l", "e", "a", "n", "u", "p">> THEN "cleanup"
        ELSE IF HasAlias(commands, command) THEN "run"
        ELSE "message"

\* Enter on the command screen commits a command line of branch b: the
\* second branch of the Enter handler
CommitsLine(k, b) ==
    /\ pc = "command"
    /\ CmdBranch(k) = "enter"
    /\ ~filter_mode
    /\ input_mode /\ HasText(input_buffer)
    /\ ParseBranch(input_buffer) \in b

\* the end of a dispatch of the command loop that waited at a prompt and
\* asked for no script; ends: how the prompt ended.  EOFError reaches
\* `except Exception: continue`, KeyboardInterrupt reaches
\* `except KeyboardInterrupt: return False`, and what the dispatch did before
\* the prompt stays
AfterPrompt(k, ends) ==
    /\ pc' = (IF ends = "interrupt" THEN "exited"
              ELSE IF ends = "eof" THEN OnException(pc) ELSE pc)
    /\ exit_by' = (IF ends = "interrupt" THEN "interrupt" ELSE exit_by)
    /\ Observe(k, ends = "eof", NoAlias, NoLaunch, "none")
    /\ typed' = NoText
    /\ PutIo([NoIo EXCEPT !.at = IF ends = "interrupt" THEN "exited" ELSE "loop"])

\* Enter in Filter mode: the filter is committed
CmdEnterFilter ==
    \E k \in EnterKeys :
        /\ pc = "command" /\ CmdBranch(k) = "enter"
        /\ filter_mode
        /\ filter_mode' = FALSE
        /\ selected_index' = 0
        /\ typed' = typed
        /\ Observe(k, FALSE, NoAlias, NoLaunch, "none")
        /\ PutIo(NoIo)
        /\ UNCHANGED <<input_buffer, input_mode, filter_text, show_preview, stores,
                       current_mode, pc, exit_by>>

\* parse_input: quit, q, exit
CmdParseQuit ==
    \E k \in EnterKeys :
        /\ CommitsLine(k, {"quit"})
        /\ pc' = "exited"
        /\ exit_by' = "quit"
        /\ PlainEnd(k)
        /\ UNCHANGED <<ui, stores, current_mode>>

\* parse_input: templates, and template alone: show_template_list enters
\* template_interactive_mode, whose first lines reset the UI state
CmdParseTemplates ==
    \E k \in EnterKeys :
        /\ CommitsLine(k, {"templates"})
        /\ reset_ui_state
        /\ pc' = "nested"
        /\ Plain(k, FALSE)
        /\ UNCHANGED <<show_preview, stores, current_mode, exit_by>>

\* the descriptions a user gives at the prompts of add_command and of
\* save_template
Descriptions == {<<>>}

\* CommandManager.add_command when it stores the entry: an existing alias
\* keeps its place, a new one goes to the end
add_command(cmds, alias, command, cmd_type, description) ==
    LET entry == [alias |-> alias, type |-> cmd_type, command |-> command,
                  description |-> description, tags |-> <<>>]
    IN  IF HasAlias(cmds, alias)
        THEN [cmds EXCEPT ![IndexOfAlias(cmds, alias)] = entry]
        ELSE Append(cmds, entry)

\* the selection after a successful add: the index of the alias in the
\* displayed list, unchanged when it is not displayed
SelectAdded(cmds, alias) ==
    LET shown == get_filtered_commands(cmds, filter_text)
    IN  IF HasAlias(shown, alias) THEN IndexOfAlias(shown, alias) - 1 ELSE selected_index

\* parse_input: add <alias> <command...> and chain <alias> <command...>.
\* stored: add_command stored the entry (the alias is well formed and the user
\* accepted every prompt); ends: how the last prompt reached ended
CmdParseAdd ==
    \E k \in EnterKeys :
        /\ CommitsLine(k, {"add", "chain"})
        /\ \E stored \in BOOLEAN, ends \in PromptEnds, description \in Descriptions :
            LET parts == Split(input_buffer)
                alias == parts[2]
                cmd == JoinTail(parts, 3)
                cmd_type == IF ParseBranch(input_buffer) = "chain" THEN "chain" ELSE "link"
                cmds1 == add_command(commands, alias, Strip(cmd), cmd_type, description)
            IN  /\ stored => alias \in Aliases /\ writes < MaxWrites
                /\ IF stored
                   THEN /\ commands' = cmds1
                        /\ writes' = writes + 1
                        /\ selected_index' = SelectAdded(cmds1, alias)
                   ELSE UNCHANGED <<commands, writes, selected_index>>
                /\ ClearInput(ends # "answered")
                /\ AfterPrompt(k, ends)
        /\ UNCHANGED <<filter_mode, filter_text, show_preview, usage_count, templates,
                       current_mode>>

\* parse_input: the first token is a stored alias
CmdParseRun ==
    \E k \in EnterKeys :
        /\ CommitsLine(k, {"run"})
        /\ RunFromCommandLoop(k, Lower(Split(input_buffer)[1]), TRUE)

\* parse_input: help, export, a usage error, an unknown command: a message
\* and the closing prompt (ends: how it ended)
CmdParseMessage ==
    \E k \in EnterKeys :
        /\ CommitsLine(k, {"message"})
        /\ \E ends \in PromptEnds :
            /\ ClearInput(ends # "answered")
            /\ AfterPrompt(k, ends)
        /\ UNCHANGED <<selected_index, filter_mode, filter_text, show_preview, stores,
                       current_mode>>

\* CommandManager.remove_command when the user confirms
remove_command(cmds, alias) ==
    LET i == IndexOfAlias(cmds, alias)
    IN  SubSeq(cmds, 1, i - 1) \o SubSeq(cmds, i + 1, Len(cmds))

\* parse_input: remove <alias>: remove_command, which also drops the usage
\* count, the selection clamped after a removal, then the closing prompt.
\* confirmed: the alias is stored and the user answered y; ends: how the
\* last prompt reached ended
CmdParseRemove ==
    \E k \in EnterKeys :
        /\ CommitsLine(k, {"remove"})
        /\ \E confirmed \in BOOLEAN, ends \in PromptEnds :
            LET alias == Split(input_buffer)[2]
                cmds1 == remove_command(commands, alias)
            IN  /\ confirmed => HasAlias(commands, alias) /\ writes < MaxWrites
                /\ IF confirmed
                   THEN /\ commands' = cmds1
                        /\ usage_count' = [usage_count EXCEPT ![alias] = 0]
                        /\ writes' = writes + 1
                        /\ selected_index' =
                               ClampAfterRemove(get_filtered_commands(cmds1, filter_text))
                   ELSE UNCHANGED <<commands, usage_count, writes, selected_index>>
                /\ ClearInput(ends # "answered")
                /\ AfterPrompt(k, ends)
        /\ UNCHANGED <<filter_mode, filter_text, show_preview, templates, current_mode>>

RECURSIVE SplitAt(_, _)
\* s.split(c)
SplitAt(s, c) ==
    IF \E j \in 1..Len(s) : s[j] = c
    THEN LET j == CHOOSE j \in 1..Len(s) : s[j] = c /\ \A m \in 1..(j - 1) : s[m] # c
         IN  <<SubSeq(s, 1, j - 1)>> \o SplitAt(SubSeq(s, j + 1, Len(s)), c)
    ELSE <<s>>

\* [tag.strip() for tag in new_tags_input.split(',') if tag.strip()]
TagsOf(new_tags_input) ==
    LET pieces == SplitAt(new_tags_input, ",")
    IN  SelectSeq([i \in 1..Len(pieces) |-> Strip(pieces[i])], LAMBDA t : t # <<>>)

\* what a user answers at the three prompts of edit_command: the command,
\* the description, the tags
EditCommandAnswers ==
    { << <<>>, <<>>, <<>> >>,
      << <<"y", " ">>, <<>>, <<"a", ",", " ">> >> }

\* CommandManager.edit_command for a stored alias when it updates the entry
edit_command(cmds, alias, answers) ==
    LET new_command == Strip(answers[1])
        new_description == Strip(answers[2])
        new_tags_input == Strip(answers[3])
    IN  [cmds EXCEPT ![IndexOfAlias(cmds, alias)] =
            [@ EXCEPT !.command = IF new_command # <<>> THEN new_command ELSE @,
                      !.description = IF new_description # <<>> THEN new_description ELSE @,
                      !.tags = IF new_tags_input # <<>> THEN TagsOf(new_tags_input) ELSE @]]

\* parse_input: edit <alias>: edit_command, then the closing prompt.
\* accepted: validate_command returned the new command; raised: the prompt
\* that raised, one of edit_command ("inside") or the closing one ("pause");
\* ends: how that prompt ended
CmdParseEdit ==
    \E k \in EnterKeys :
        /\ CommitsLine(k, {"edit"})
        /\ \E answers \in EditCommandAnswers, accepted \in BOOLEAN,
              raised \in {"none", "inside", "pause"}, ends \in PromptEnds :
            LET alias == Split(input_buffer)[2]
                updates == /\ HasAlias(commands, alias)
                           /\ Strip(answers[1]) = <<>> \/ accepted
                           /\ raised # "inside"
                cmds1 == IF updates THEN edit_command(commands, alias, answers)
                         ELSE commands
            IN  /\ (raised = "none") <=> (ends = "answered")
                /\ raised = "inside" => HasAlias(commands, alias)
                /\ cmds1 # commands => writes < MaxWrites
                /\ commands' = cmds1
                /\ writes' = (IF cmds1 # commands THEN writes + 1 ELSE writes)
                /\ ClearInput(raised # "none")
                /\ AfterPrompt(k, ends)
        /\ UNCHANGED <<selected_index, filter_mode, filter_text, show_preview,
                       usage_count, templates, current_mode>>

\* parse_input: template <name>: run_template, then the closing prompt.
\* ends: how the closing prompt ends when it is reached
CmdParseTemplateRun ==
    \E k \in EnterKeys :
        /\ CommitsLine(k, {"template_run"})
        /\ \E run \in RunsOfTemplate(templates, Split(input_buffer)[2]),
              ends \in PromptEnds :
            LET name == Split(input_buffer)[2]
                leaves == run.how \in {"raised", "interrupted", "replaced"}
                raised == run.how = "raised" \/ (~leaves /\ ends = "eof")
                interrupted == run.how = "interrupted" \/ (~leaves /\ ends = "interrupt")
            IN  /\ LeavesFile(run) => writes < MaxWrites
                /\ writes' = WritesAfter(run)
                /\ Observe(k, raised, name, run.launch, run.outcome)
                /\ typed' = NoText
                /\ PutIo(IF interrupted THEN [run.io EXCEPT !.at = "exited"] ELSE run.io)
                /\ IF run.how = "replaced"
                   THEN /\ pc' = "replaced"
                        /\ exit_by' = "exec"
                        /\ UNCHANGED <<input_buffer, input_mode>>
                   ELSE IF interrupted
                   THEN /\ pc' = "exited"
                        /\ exit_by' = "interrupt"
                        /\ UNCHANGED <<input_buffer, input_mode>>
                   ELSE /\ pc' = (IF raised THEN OnException(pc) ELSE pc)
                        /\ exit_by' = exit_by
                        /\ ClearInput(raised)
        /\ UNCHANGED <<selected_index, filter_mode, filter_text, show_preview, commands,
                       usage_count, templates, current_mode>>

\* what a user answers at a prompt of edit_template in a session that
\* manages the stores
ManageAnswers == {<<>>, <<"z", " ">>}

\* parse_input: template edit <name>: edit_template (a usage message when
\* more words follow), then the closing prompt.  raised: the prompt that
\* raised, one of edit_template ("inside") or the closing one ("pause");
\* ends: how that prompt ended
CmdParseTemplateEdit ==
    \E k \in EnterKeys :
        /\ CommitsLine(k, {"template_edit"})
        /\ \E new_command \in ManageAnswers, new_description \in ManageAnswers,
              raised \in {"none", "inside", "pause"}, ends \in PromptEnds :
            LET parts == Split(input_buffer)
                asks == Len(parts) = 3 /\ HasTemplate(templates, parts[3])
                tpls1 == IF asks /\ raised # "inside"
                         THEN edit_template(templates, parts[3], new_command,
                                            new_description)
                         ELSE templates
            IN  /\ (raised = "none") <=> (ends = "answered")
                /\ raised = "inside" => asks
                /\ tpls1 # templates => writes < MaxWrites
                /\ templates' = tpls1
                /\ writes' = (IF tpls1 # templates THEN writes + 1 ELSE writes)
                /\ ClearInput(raised # "none")
                /\ AfterPrompt(k, ends)
        /\ UNCHANGED <<selected_index, filter_mode, filter_text, show_preview, commands,
                       usage_count, current_mode>>

\* parse_input: template remove <name>: remove_template (a usage message
\* when more words follow), then the closing prompt.  confirmed: the name is
\* stored and the user answered y; ends: how the last prompt reached ended
CmdParseTemplateRemove ==
    \E k \in EnterKeys :
        /\ CommitsLine(k, {"template_remove"})
        /\ \E confirmed \in BOOLEAN, ends \in PromptEnds :
            LET parts == Split(input_buffer)
            IN  /\ confirmed => /\ Len(parts) = 3
                                /\ HasTemplate(templates, parts[3])
                                /\ writes < MaxWrites
                /\ IF confirmed
                   THEN /\ templates' = remove_template(templates, parts[3])
                        /\ writes' = writes + 1
                   ELSE UNCHANGED <<templates, writes>>
                /\ ClearInput(ends # "answered")
                /\ AfterPrompt(k, ends)
        /\ UNCHANGED <<selected_index, filter_mode, filter_text, show_preview, commands,
                       usage_count, current_mode>>

\* parse_input: template <name> <command...>: save_template, then the
\* closing prompt.  stored: the name is well formed, the user let an entry of
\* that name be overwritten and answered the prompt for the description;
\* ends: how the last prompt reached ended
CmdParseTemplateSave ==
    \E k \in EnterKeys :
        /\ CommitsLine(k, {"template_save"})
        /\ \E stored \in BOOLEAN, ends \in PromptEnds, description \in Descriptions :
            LET parts == Split(input_buffer)
            IN  /\ stored => IsValidName(parts[2]) /\ writes < MaxWrites
                /\ ~stored => \/ ends # "answered"
                              \/ ~IsValidName(parts[2])
                              \/ HasTemplate(templates, parts[2])
                /\ IF stored
                   THEN /\ templates' = save_template(templates, parts[2],
                                                      JoinTail(parts, 3), description)
                        /\ writes' = writes + 1
                   ELSE UNCHANGED <<templates, writes>>
                /\ ClearInput(ends # "answered")
                /\ AfterPrompt(k, ends)
        /\ UNCHANGED <<selected_index, filter_mode, filter_text, show_preview, commands,
                       usage_count, current_mode>>

\* the files an `import` reads, as json.load gives them: the aliases in the
\* order of the file, each with a string or with a dict of the fields the
\* file gives
ImportFiles ==
    { << [alias |-> <<"a">>, form |-> "str", data |-> [command |-> <<"y">>]] >>,
      << [alias |-> <<"d">>, form |-> "dict",
          data |-> [type |-> "chain", command |-> <<"x">>, tags |-> << <<"a">> >>]],
         [alias |-> <<"c">>, form |-> "dict", data |-> [command |-> <<"x">>]] >>,
      << [alias |-> <<"d">>, form |-> "str", data |-> [command |-> <<"x">>]] >> }

\* the entry that import_commands stores for one item of the file
ImportedEntry(item) ==
    IF item.form = "str"
    THEN [alias |-> item.alias, type |-> "link", command |-> item.data.command,
          description |-> <<>>, tags |-> <<>>]
    ELSE [alias |-> item.alias,
          type |-> IF "type" \in DOMAIN item.data THEN item.data.type ELSE "link",
          command |-> item.data.command,
          description |-> IF "description" \in DOMAIN item.data
                          THEN item.data.description ELSE <<>>,
          tags |-> IF "tags" \in DOMAIN item.data THEN item.data.tags ELSE <<>>]

RECURSIVE ImportFrom(_, _, _)
\* the loop of import_commands over imported_commands.items(): an existing
\* alias keeps its place, a new one goes to the end
ImportFrom(cmds, file, i) ==
    IF i > Len(file) THEN cmds
    ELSE LET entry == ImportedEntry(file[i])
         IN  ImportFrom(IF HasAlias(cmds, entry.alias)
                        THEN [cmds EXCEPT ![IndexOfAlias(cmds, entry.alias)] = entry]
                        ELSE Append(cmds, entry),
                        file, i + 1)

\* QLLauncher.import_commands when it imports
import_commands(cmds, file) == ImportFrom(cmds, file, 1)

\* parse_input: import <filename>: import_commands, then the closing prompt.
\* found: the file exists and json.load reads it; overwrite: the user
\* answered y at the prompt that a conflict brings (an EOFError there is
\* caught in import_commands); ends: how the last prompt reached ended (a
\* KeyboardInterrupt at the overwrite prompt is not caught)
CmdParseImport ==
    \E k \in EnterKeys :
        /\ CommitsLine(k, {"import"})
        /\ \E file \in ImportFiles, found \in BOOLEAN, overwrite \in BOOLEAN,
              ends \in PromptEnds :
            LET conflicts == {i \in 1..Len(file) : HasAlias(commands, file[i].alias)}
                imports == found /\ (conflicts = {} \/ overwrite)
                cmds1 == IF imports THEN import_commands(commands, file) ELSE commands
            IN  /\ cmds1 # commands => writes < MaxWrites
                /\ commands' = cmds1
                /\ writes' = (IF cmds1 # commands THEN writes + 1 ELSE writes)
                /\ ClearInput(ends # "answered")
                /\ AfterPrompt(k, ends)
        /\ UNCHANGED <<selected_index, filter_mode, filter_text, show_preview,
                       usage_count, templates, current_mode>>

\* parse_input: cleanup: force_cleanup_all_scripts (refused: the names of
\* the files that raise in it), a message with its count, then the closing
\* prompt (ends: how it ended)
CmdParseCleanup ==
    \E k \in EnterKeys :
        /\ CommitsLine(k, {"cleanup"})
        /\ \E ends \in PromptEnds, refused \in SUBSET Candidates(tmp.files) :
            /\ ClearInput(ends # "answered")
            /\ pc' = (IF ends = "interrupt" THEN "exited"
                      ELSE IF ends = "eof" THEN OnException(pc) ELSE pc)
            /\ exit_by' = (IF ends = "interrupt" THEN "interrupt" ELSE exit_by)
            /\ Observe(k, ends = "eof", NoAlias, NoLaunch, "none")
            /\ typed' = NoText
            /\ PutIo([NoIo EXCEPT !.tmp = SweepAllOf(tmp, refused).tmp,
                                  !.last = SweepAllOf(tmp, refused).last,
                                  !.at = IF ends = "interrupt" THEN "exited" ELSE "loop"])
        /\ UNCHANGED <<selected_index, filter_mode, filter_text, show_preview, stores,
                       current_mode>>

\* the third branch of the Enter handler applies and its test holds
EnterRuns(shown) ==
    /\ ~filter_mode
    /\ ~(input_mode /\ HasText(input_buffer))
    /\ shown # <<>> /\ ~input_mode
    /\ SelectionInRange(shown)

\* Enter in Normal mode: run the selected command
CmdEnterRun ==
    \E k \in EnterKeys :
        /\ pc = "command" /\ CmdBranch(k) = "enter"
        /\ EnterRuns(display_commands)
        /\ RunFromCommandLoop(k, PyIndex(display_commands, selected_index).alias, FALSE)

\* Enter with nothing to do: a blank input buffer, an empty list, or a
\* selection outside the list
CmdEnterNothing ==
    \E k \in EnterKeys :
        /\ pc = "command" /\ CmdBranch(k) = "enter"
        /\ ~filter_mode
        /\ ~(input_mode /\ HasText(input_buffer))
        /\ ~EnterRuns(display_commands)
        /\ Plain(k, FALSE)
        /\ UNCHANGED <<ui, stores, current_mode, pc, exit_by>>

\* suggestions cut to the first one
FirstSuggestionOnly(partial) ==
    LET matches == SelectSeq(commands, LAMBDA e : StartsWith(e.alias, partial))
    IN  SubSeq(matches, 1, IF Len(matches) > 1 THEN 1 ELSE Len(matches))

\* QLLauncher.get_command_suggestions
get_command_suggestions(partial) ==
    SelectSeq(commands, LAMBDA e : StartsWith(e.alias, partial))

\* Tab in TextInput mode: completion.  ends: how the prompt that follows the
\* list of several suggestions ended
CmdTab ==
    \E k \in TabKeys :
        /\ pc = "command" /\ CmdBranch(k) = "tab"
        /\ \E ends \in PromptEnds :
            LET suggestions == get_command_suggestions(input_buffer)
            IN  /\ ends # "answered" => Len(suggestions) > 1
                /\ input_buffer' = (IF Len(suggestions) = 1
                                    THEN suggestions[1].alias \o <<" ">>
                                    ELSE input_buffer)
                /\ input_buffer' \in InputTexts
                /\ AfterPrompt(k, ends)
        /\ UNCHANGED <<selected_index, input_mode, filter_mode, filter_text, show_preview,
                       stores, current_mode>>

\* a digit in Normal mode that selects an entry: run it
CmdDigitRun ==
    \E k \in DigitKeys :
        /\ pc = "command" /\ CmdBranch(k) = "digit"
        /\ LET num == DigitValue(k[1]) - 1
           IN  /\ QuickSelects(num, display_commands)
               /\ RunFromCommandLoop(k, PyIndex(display_commands, num).alias, FALSE)

\* a digit in Normal mode that selects nothing
CmdDigitNothing ==
    \E k \in DigitKeys :
        /\ pc = "command" /\ CmdBranch(k) = "digit"
        /\ ~QuickSelects(DigitValue(k[1]) - 1, display_commands)
        /\ Plain(k, FALSE)
        /\ UNCHANGED <<ui, stores, current_mode, pc, exit_by>>

\* p in Normal mode: toggle the preview
CmdPreview ==
    \E k \in LetterKey("p") :
        /\ pc = "command" /\ CmdBranch(k) = "preview"
        /\ show_preview' = ~show_preview
        /\ Plain(k, FALSE)
        /\ UNCHANGED <<selected_index, input_buffer, input_mode, filter_mode, filter_text,
                       stores, current_mode, pc, exit_by>>

CmdUp ==
    \E k \in UpKeys :
        /\ pc = "command" /\ CmdBranch(k) = "up"
        /\ selected_index' = MoveUp
        /\ Plain(k, FALSE)
        /\ UNCHANGED <<input_buffer, input_mode, filter_mode, filter_text, show_preview,
                       stores, current_mode, pc, exit_by>>

CmdDown ==
    \E k \in DownKeys :
        /\ pc = "command" /\ CmdBranch(k) = "down"
        /\ selected_index' = MoveDown(display_commands)
        /\ Plain(k, FALSE)
        /\ UNCHANGED <<input_buffer, input_mode, filter_mode, filter_text, show_preview,
                       stores, current_mode, pc, exit_by>>

\* a handler of the command loop that shows a page and waits at a prompt
\* when the selection is in the list.  ends: how the prompt ended
PromptOnly(k, shown) ==
    \E ends \in PromptEnds :
        /\ ends # "answered" => SelectionInRange(shown)
        /\ AfterPrompt(k, ends)
        /\ UNCHANGED <<ui, stores, current_mode>>

\* Ctrl+D in Normal mode: dry_run_command
CmdDryRun ==
    \E k \in DryRunKeys :
        /\ pc = "command" /\ CmdBranch(k) = "dry_run"
        /\ PromptOnly(k, display_commands)

\* Ctrl+Y in Normal mode: copy_to_clipboard
CmdCopy ==
    \E k \in CopyKeys :
        /\ pc = "command" /\ CmdBranch(k) = "copy"
        /\ PromptOnly(k, display_commands)

\* '/' outside TextInput mode: enter Filter mode
CmdSlash ==
    \E k \in SlashKeys :
        /\ pc = "command" /\ CmdBranch(k) = "slash"
        /\ EnterFilterMode
        /\ typed' = (IF filter_mode /\ TypedAppend(k) # NoText THEN TypedAppend(k) ELSE <<>>)
        /\ Observe(k, FALSE, NoAlias, NoLaunch, "none")
        /\ PutIo(NoIo)
        /\ UNCHANGED <<show_preview, stores, current_mode, pc, exit_by>>

CmdBackspace ==
    \E k \in BackspaceKeys :
        /\ pc = "command" /\ CmdBranch(k) = "backspace"
        /\ Backspace
        /\ Plain(k, FALSE)
        /\ UNCHANGED <<show_preview, stores, current_mode, pc, exit_by>>

CmdEscape ==
    \E k \in EscapeKeys :
        /\ pc = "command" /\ CmdBranch(k) = "escape"
        /\ Reads(k)
        /\ EscapeClears
        /\ Plain(k, FALSE)
        /\ UNCHANGED <<show_preview, stores, current_mode, pc, exit_by>>

\* Ctrl+C: command_interactive_mode returns False, interactive_mode returns
CmdCtrlC ==
    \E k \in CtrlCKeys :
        /\ pc = "command" /\ CmdBranch(k) = "ctrl_c"
        /\ pc' = "exited"
        /\ exit_by' = "ctrl_c"
        /\ PlainEnd(k)
        /\ UNCHANGED <<ui, stores, current_mode>>

\* Ctrl+T: switch to template mode; interactive_mode then calls
\* template_interactive_mode_loop
CmdCtrlT ==
    \E k \in CtrlTKeys :
        /\ pc = "command" /\ CmdBranch(k) = "ctrl_t"
        /\ current_mode' = "template"
        /\ reset_ui_state
        /\ pc' = "template"
        /\ Plain(k, FALSE)
        /\ UNCHANGED <<show_preview, stores, exit_by>>

\* a printable key, pressed where the text it leaves begins a line of texts
CmdPrintableOf(texts) ==
    \E k \in PrintableKeys :
        /\ pc = "command"
        /\ AppendPrintable(k)
        /\ IF filter_mode THEN filter_text' \in FilterTexts ELSE input_buffer' \in texts
        /\ CmdBranch(k) = "printable"
        /\ typed' = (IF filter_mode THEN TypedAppend(k) ELSE NoText)
        /\ Observe(k, FALSE, NoAlias, NoLaunch, "none")
        /\ PutIo(NoIo)
        /\ UNCHANGED <<show_preview, stores, current_mode, pc, exit_by>>

CmdPrintable == CmdPrintableOf(InputTexts)

\* the same key in a session that manages the stores
CmdPrintableManage == CmdPrintableOf(ManageTexts)

\* a key that no branch takes
CmdIgnored ==
    \E k \in OtherKeys :
        /\ pc = "command" /\ CmdBranch(k) = "none"
        /\ Reads(k)
        /\ Plain(k, FALSE)
        /\ UNCHANGED <<ui, stores, current_mode, pc, exit_by>>

\* get_key raises (termios.error, OSError): `except Exception: continue`
CmdGetKeyFails ==
    /\ pc = "command"
    /\ pc' = OnException(pc)
    /\ Plain(NoKey, TRUE)
    /\ UNCHANGED <<ui, stores, current_mode, exit_by>>

\* KeyboardInterrupt while get_key reads: `except KeyboardInterrupt: return
\* False`; one raised later in the loop body, at a prompt, is the way out
\* "interrupt" of the dispatch that waits at the prompt
CmdInterrupt ==
    /\ pc = "command"
    /\ pc' = "exited"
    /\ exit_by' = "interrupt"
    /\ PlainEnd(Interrupt)
    /\ UNCHANGED <<ui, stores, current_mode>>

CommandScreen ==
    \/ CmdEnterFilter \/ CmdParseQuit \/ CmdParseTemplates \/ CmdParseAdd
    \/ CmdParseRun \/ CmdParseMessage \/ CmdEnterRun
    \/ CmdEnterNothing \/ CmdTab \/ CmdDigitRun \/ CmdDigitNothing \/ CmdPreview
    \/ CmdUp \/ CmdDown \/ CmdDryRun \/ CmdCopy \/ CmdSlash \/ CmdBackspace
    \/ CmdCtrlC \/ CmdCtrlT \/ CmdPrintable \/ CmdIgnored
    \/ CmdGetKeyFails \/ CmdInterrupt

\* the lines of parse_input that change the stores or the script directory
ManageScreen ==
    \/ CmdPrintableManage \/ CmdParseRemove \/ CmdParseEdit \/ CmdParseTemplateRun
    \/ CmdParseTemplateEdit \/ CmdParseTemplateRemove \/ CmdParseTemplateSave
    \/ CmdParseImport \/ CmdParseCleanup

(***************************************************************************)
(* The template screen: QLLauncher.template_interactive_mode, under         *)
(* template_interactive_mode_loop (pc = "template") or under parse_input    *)
(* (pc = "nested").                                                         *)
(***************************************************************************)
OnTemplateScreen == pc \in {"template", "nested"}

\* the branch of the if / elif chain of template_interactive_mode that key k takes
TplBranch(k) ==
    LET normal == ~input_mode /\ ~filter_mode
        shown == display_templates # <<>>
    IN  IF k = <<"CR">> \/ k = <<"LF">> THEN "enter"
        ELSE IF IsDigit(k) /\ normal THEN "digit"
        ELSE IF k = <<"e">> /\ normal /\ shown THEN "edit"
        ELSE IF k = <<"d">> /\ normal /\ shown THEN "show"
        ELSE IF k = <<"r">> /\ normal /\ shown THEN "remove"
        ELSE IF k = <<"n">> /\ normal THEN "new"
        ELSE IF k = <<"c">> /\ normal /\ shown THEN "copy"
        ELSE IF k = <<"p">> /\ normal THEN "preview"
        ELSE IF k = KEY_UP /\ normal /\ shown THEN "up"
        ELSE IF k = KEY_DOWN /\ normal /\ shown THEN "down"
        ELSE IF SlashApplies(k) THEN "slash"
        ELSE IF k = <<"DEL">> \/ k = <<"BS">> THEN "backspace"
        ELSE IF k = <<"ESC">> THEN "escape"
        ELSE IF k = <<"ETX">> THEN "ctrl_c"
        ELSE IF k = <<"DC4">> THEN "ctrl_t"
        ELSE IF k = <<"q">> THEN "quit"
        ELSE IF IsPrintable(k) THEN "printable"
        ELSE "none"

\* key k takes branch b of the template screen
TplTakes(k, b) == OnTemplateScreen /\ TplBranch(k) = b

\* template_interactive_mode returns, the dispatch that ends it having left
\* w writes, the templates tpls and the selection sel.  Under
\* template_interactive_mode_loop, True (switches) goes back to the command
\* screen and anything else ends interactive_mode.  Under parse_input the
\* value is dropped: parse_input waits at its prompt (ends: how the prompt
\* ended; the command loop swallows EOFError and returns on
\* KeyboardInterrupt) and returns True to the command loop.
LeaveTemplate(k, cause, switches, rr, l, io, h, w, tpls, sel) ==
    \E ends \in PromptEnds :
        /\ ends # "answered" => pc = "nested"
        /\ IF pc = "template"
           THEN IF switches
                THEN /\ current_mode' = "command"
                     /\ reset_ui_state
                     /\ pc' = "command"
                     /\ exit_by' = exit_by
                     /\ PutIo(io)
                ELSE /\ pc' = "exited"
                     /\ exit_by' = cause
                     /\ PutIo([io EXCEPT !.at = "exited"])
                     /\ selected_index' = sel
                     /\ UNCHANGED <<current_mode, input_buffer, input_mode, filter_mode,
                                    filter_text>>
           ELSE /\ pc' = (IF ends = "interrupt" THEN "exited"
                          ELSE IF ends = "eof" THEN OnException("command")
                          ELSE "command")
                /\ exit_by' = (IF ends = "interrupt" THEN "interrupt" ELSE exit_by)
                /\ ClearInput(ends # "answered")
                /\ PutIo([io EXCEPT !.at = IF ends = "interrupt" THEN "exited" ELSE @])
                /\ selected_index' = sel
                /\ UNCHANGED <<current_mode, filter_mode, filter_text>>
        /\ Observe(k, ends = "eof", rr, l, h)
        /\ typed' = NoText
        /\ writes' = w
        /\ templates' = tpls
        /\ UNCHANGED <<show_preview, commands, usage_count>>

\* the end of a dispatch of the template loop that waited at a prompt and
\* asked for no script, having left w writes, the templates tpls and the
\* selection sel; ends: how the prompt ended; clears: the two lines that
\* clear the input buffer follow the call.  EOFError reaches
\* `except Exception: continue`, KeyboardInterrupt reaches
\* `except KeyboardInterrupt: return False`
TplAfterPrompt(k, ends, w, tpls, sel, clears) ==
    IF ends = "interrupt"
    THEN LeaveTemplate(k, "interrupt", FALSE, NoAlias, NoLaunch, NoIo, "none", w, tpls, sel)
    ELSE /\ pc' = (IF ends = "eof" THEN OnException(pc) ELSE pc)
         /\ Plain(k, ends = "eof")
         /\ writes' = w
         /\ templates' = tpls
         /\ selected_index' = sel
         /\ IF clears THEN ClearInput(ends # "answered")
            ELSE UNCHANGED <<input_buffer, input_mode>>
         /\ UNCHANGED <<filter_mode, filter_text, show_preview, commands, usage_count,
                        current_mode, exit_by>>

\* run_template(name) called by the Enter and the digit handlers, and the
\* `break` that follows its return; a run that ends "interrupted" ends the
\* screen by `except KeyboardInterrupt: return False`
RunFromTemplateLoop(k, name) ==
    \E run \in RunsOfTemplate(templates, name) :
            /\ LeavesFile(run) => writes < MaxWrites
            /\ IF run.how = "replaced"
               THEN /\ pc' = "replaced"
                    /\ exit_by' = "exec"
                    /\ Observe(k, FALSE, name, run.launch, run.outcome)
                    /\ PutIo(run.io)
                    /\ typed' = NoText
                    /\ UNCHANGED <<ui, stores, current_mode>>
               ELSE IF run.how = "raised"
               THEN /\ pc' = OnException(pc)
                    /\ Observe(k, TRUE, name, run.launch, run.outcome)
                    /\ PutIo(run.io)
                    /\ typed' = NoText
                    /\ writes' = WritesAfter(run)
                    /\ UNCHANGED <<ui, commands, usage_count, templates, current_mode,
                                   exit_by>>
               ELSE LeaveTemplate(k, IF run.how = "interrupted" THEN "interrupt"
                                     ELSE "run_returned",
                                  FALSE, name, run.launch, run.io, run.outcome,
                                  WritesAfter(run), templates, selected_index)

\* Enter in Filter mode: the filter is committed
TplEnterFilter ==
    \E k \in EnterKeys :
        /\ TplTakes(k, "enter")
        /\ filter_mode
        /\ filter_mode' = FALSE
        /\ selected_index' = 0
        /\ Plain(k, FALSE)
        /\ UNCHANGED <<input_buffer, input_mode, filter_text, show_preview, stores,
                       current_mode, pc, exit_by>>

\* Enter in TextInput mode: parse_template_input, which always returns True.
\* stored: save_template stored the entry; ends: how the last prompt reached
\* ended, a prompt of save_template (618 when the name is new) or the closing
\* one
TplParse ==
    \E k \in EnterKeys :
        /\ TplTakes(k, "enter")
        /\ ~filter_mode
        /\ input_mode /\ HasText(input_buffer)
        /\ \E parts \in {Split(input_buffer)}, stored \in BOOLEAN, ends \in PromptEnds,
              description \in Descriptions :
            LET command == Lower(parts[1])
                saves == command = <<"n", "e", "w">> /\ Len(parts) >= 3
            IN  /\ stored => saves /\ IsValidName(parts[2]) /\ writes < MaxWrites
                /\ (saves /\ ~stored) =>
                       \/ ~IsValidName(parts[2])
                       \/ HasTemplate(templates, parts[2])
                       \/ ends # "answered"
                /\ TplAfterPrompt(k, ends,
                                  IF stored THEN writes + 1 ELSE writes,
                                  IF stored
                                  THEN save_template(templates, parts[2],
                                                     JoinTail(parts, 3), description)
                                  ELSE templates,
                                  selected_index, TRUE)

\* Enter in Normal mode: run the selected template
TplEnterRun ==
    \E k \in EnterKeys :
        /\ TplTakes(k, "enter")
        /\ EnterRuns(display_templates)
        /\ RunFromTemplateLoop(k, PyIndex(display_templates, selected_index).name)

\* Enter with nothing to do
TplEnterNothing ==
    \E k \in EnterKeys :
        /\ TplTakes(k, "enter")
        /\ ~filter_mode
        /\ ~(input_mode /\ HasText(input_buffer))
        /\ ~EnterRuns(display_templates)
        /\ Plain(k, FALSE)
        /\ UNCHANGED <<ui, stores, current_mode, pc, exit_by>>

\* a digit in Normal mode that selects a template: run it
TplDigitRun ==
    \E k \in DigitKeys :
        /\ TplTakes(k, "digit")
        /\ LET num == DigitValue(k[1]) - 1
           IN  /\ QuickSelects(num, display_templates)
               /\ RunFromTemplateLoop(k, PyIndex(display_templates, num).name)

\* a digit in Normal mode that selects nothing
TplDigitNothing ==
    \E k \in DigitKeys :
        /\ TplTakes(k, "digit")
        /\ ~QuickSelects(DigitValue(k[1]) - 1, display_templates)
        /\ Plain(k, FALSE)
        /\ UNCHANGED <<ui, stores, current_mode, pc, exit_by>>

\* e in Normal mode: edit_template, then a prompt.  ends: how the last
\* prompt reached ended
TplEdit ==
    \E k \in LetterKey("e") :
        /\ TplTakes(k, "edit")
        /\ \E ends \in PromptEnds, new_command \in EditAnswers,
              new_description \in EditAnswers :
            /\ ends # "answered" => SelectionInRange(display_templates)
            /\ TplAfterPrompt(k, ends, writes,
                              IF SelectionInRange(display_templates)
                              THEN edit_template(
                                       templates,
                                       PyIndex(display_templates, selected_index).name,
                                       new_command, new_description)
                              ELSE templates,
                              selected_index, FALSE)

\* a handler of the template loop that shows a page and waits at a prompt
\* when the selection is in the list.  ends: how the prompt ended
TplPromptOnly(k, shown) ==
    \E ends \in PromptEnds :
        /\ ends # "answered" => SelectionInRange(shown)
        /\ TplAfterPrompt(k, ends, writes, templates, selected_index, FALSE)

\* d in Normal mode: show_template_preview
TplShow ==
    \E k \in LetterKey("d") :
        /\ TplTakes(k, "show")
        /\ TplPromptOnly(k, display_templates)

\* r in Normal mode: remove_template, the selection clamped after a removal,
\* then a prompt.  confirmed: the user answered y; ends: how the last prompt
\* reached ended
TplRemove ==
    \E k \in LetterKey("r") :
        /\ TplTakes(k, "remove")
        /\ \E confirmed \in BOOLEAN, ends \in PromptEnds :
            LET tpls1 == IF confirmed
                         THEN remove_template(
                                  templates,
                                  PyIndex(display_templates, selected_index).name)
                         ELSE templates
            IN  /\ confirmed => SelectionInRange(display_templates) /\ writes < MaxWrites
                /\ ends # "answered" => SelectionInRange(display_templates)
                /\ TplAfterPrompt(k, ends,
                                  IF confirmed THEN writes + 1 ELSE writes,
                                  tpls1,
                                  IF confirmed
                                  THEN ClampAfterRemove(
                                           get_filtered_templates(tpls1, filter_text))
                                  ELSE selected_index,
                                  FALSE)

\* n in Normal mode: start a `new` command line
TplNew ==
    \E k \in LetterKey("n") :
        /\ TplTakes(k, "new")
        /\ input_mode' = TRUE
        /\ input_buffer' = <<"n", "e", "w", " ">>
        /\ Plain(k, FALSE)
        /\ UNCHANGED <<selected_index, filter_mode, filter_text, show_preview, stores,
                       current_mode, pc, exit_by>>

\* c in Normal mode: copy_template_to_clipboard
TplCopy ==
    \E k \in LetterKey("c") :
        /\ TplTakes(k, "copy")
        /\ TplPromptOnly(k, display_templates)

\* p in Normal mode: toggle the preview
TplPreview ==
    \E k \in LetterKey("p") :
        /\ TplTakes(k, "preview")
        /\ show_preview' = ~show_preview
        /\ Plain(k, FALSE)
        /\ UNCHANGED <<selected_index, input_buffer, input_mode, filter_mode, filter_text,
                       stores, current_mode, pc, exit_by>>

TplUp ==
    \E k \in UpKeys :
        /\ TplTakes(k, "up")
        /\ selected_index' = MoveUp
        /\ Plain(k, FALSE)
        /\ UNCHANGED <<input_buffer, input_mode, filter_mode, filter_text, show_preview,
                       stores, current_mode, pc, exit_by>>

TplDown ==
    \E k \in DownKeys :
        /\ TplTakes(k, "down")
        /\ selected_index' = MoveDown(display_templates)
        /\ Plain(k, FALSE)
        /\ UNCHANGED <<input_buffer, input_mode, filter_mode, filter_text, show_preview,
                       stores, current_mode, pc, exit_by>>

\* '/' outside TextInput mode: enter Filter mode
TplSlash ==
    \E k \in SlashKeys :
        /\ TplTakes(k, "slash")
        /\ EnterFilterMode
        /\ Plain(k, FALSE)
        /\ UNCHANGED <<show_preview, stores, current_mode, pc, exit_by>>

TplBackspace ==
    \E k \in BackspaceKeys :
        /\ TplTakes(k, "backspace")
        /\ Backspace
        /\ Plain(k, FALSE)
        /\ UNCHANGED <<show_preview, stores, current_mode, pc, exit_by>>

\* Escape in Filter or TextInput mode
TplEscapeClears ==
    \E k \in EscapeKeys :
        /\ TplTakes(k, "escape")
        /\ Reads(k)
        /\ filter_mode \/ input_mode
        /\ EscapeClears
        /\ Plain(k, FALSE)
        /\ UNCHANGED <<show_preview, stores, current_mode, pc, exit_by>>

\* Escape in Normal mode: return False
TplEscapeLeaves ==
    \E k \in EscapeKeys :
        /\ TplTakes(k, "escape")
        /\ Reads(k)
        /\ ~filter_mode /\ ~input_mode
        /\ LeaveTemplate(k, "escape", FALSE, NoAlias, NoLaunch, NoIo, "none", writes,
                         templates, selected_index)

\* Ctrl+C: return False
TplCtrlC ==
    \E k \in CtrlCKeys :
        /\ TplTakes(k, "ctrl_c")
        /\ LeaveTemplate(k, "ctrl_c", FALSE, NoAlias, NoLaunch, NoIo, "none", writes,
                         templates, selected_index)

\* Ctrl+T: return True
TplCtrlT ==
    \E k \in CtrlTKeys :
        /\ TplTakes(k, "ctrl_t")
        /\ LeaveTemplate(k, "ctrl_t", TRUE, NoAlias, NoLaunch, NoIo, "none", writes,
                         templates, selected_index)

\* q: return False
TplQuit ==
    \E k \in LetterKey("q") :
        /\ TplTakes(k, "quit")
        /\ LeaveTemplate(k, "q_key", FALSE, NoAlias, NoLaunch, NoIo, "none", writes,
                         templates, selected_index)

TplPrintable ==
    \E k \in PrintableKeys :
        /\ OnTemplateScreen
        /\ AppendPrintable(k)
        /\ IF filter_mode THEN filter_text' \in FilterTexts ELSE input_buffer' \in TemplateTexts
        /\ TplTakes(k, "printable")
        /\ Plain(k, FALSE)
        /\ UNCHANGED <<show_preview, stores, current_mode, pc, exit_by>>

\* a key that no branch takes
TplIgnored ==
    \E k \in OtherKeys :
        /\ TplTakes(k, "none")
        /\ Reads(k)
        /\ Plain(k, FALSE)
        /\ UNCHANGED <<ui, stores, current_mode, pc, exit_by>>

\* get_key raises (termios.error, OSError): `except Exception: continue`
TplGetKeyFails ==
    /\ OnTemplateScreen
    /\ pc' = OnException(pc)
    /\ Plain(NoKey, TRUE)
    /\ UNCHANGED <<ui, stores, current_mode, exit_by>>

\* KeyboardInterrupt while get_key reads: `except KeyboardInterrupt: return
\* False`; one raised later in the loop body, at a prompt, is the way out
\* "interrupt" of the dispatch that waits at the prompt
TplInterrupt ==
    /\ OnTemplateScreen
    /\ LeaveTemplate(Interrupt, "interrupt", FALSE, NoAlias, NoLaunch, NoIo, "none", writes,
                         templates, selected_index)

TemplateScreen ==
    \/ TplEnterFilter \/ TplParse \/ TplEnterRun \/ TplEnterNothing \/ TplDigitRun
    \/ TplDigitNothing \/ TplEdit \/ TplShow \/ TplRemove \/ TplNew \/ TplCopy
    \/ TplPreview \/ TplUp \/ TplDown \/ TplSlash \/ TplBackspace
    \/ TplCtrlC \/ TplCtrlT \/ TplQuit \/ TplPrintable
    \/ TplIgnored \/ TplGetKeyFails \/ TplInterrupt

\* the dispatches of a session on the termios path, whose get_key returns
\* no Escape key
Next == CommandScreen \/ TemplateScreen

Spec == Init /\ [][Next]_<<vars, iovars>>

\* the dispatches of a session on the msvcrt path
WinNext == Next \/ CmdEscape \/ TplEscapeClears \/ TplEscapeLeaves

WinSpec == WinInit /\ [][WinNext]_<<vars, iovars>>

\* a session on the termios path whose user types the lines that manage the
\* stores, each ended by Enter
ManageSpec == Init /\ [][ManageScreen]_<<vars, iovars>>

(***************************************************************************)
(* Reading a key, launching, sweeping, and the run of the generated script. *)
(***************************************************************************)
\* the launches asked for: stored entries of both kinds, a chain of two
\* commands as `chain cB x && y` stores it, a link whose body holds the
\* marker text, a template run
LaunchArgs ==
    { [alias |-> <<"a">>, command |-> <<"x">>, type |-> "link"],
      [alias |-> <<"c", "B">>, command |-> <<"x">>, type |-> "chain"],
      [alias |-> <<"c", "B">>, command |-> <<"x", " ", "&", "&", " ", "y">>,
       type |-> "chain"],
      [alias |-> <<"a">>, command |-> <<"e", "c", "h", "o", " ">> \o Marker,
       type |-> "link"],
      [alias |-> DirectAlias, command |-> <<"x", "y">>, type |-> "link"] }

\* the entry of the command file that the launch a runs
StoredEntry(a) ==
    [alias |-> a.alias, type |-> a.type, command |-> a.command, description |-> <<>>,
     tags |-> <<>>]

\* the command files a session of launches starts from: each holds two of
\* the stored launches
LaunchStores ==
    { <<StoredEntry(a), StoredEntry(b)>> :
          a \in {l \in LaunchArgs : l.alias = <<"a">>},
          b \in {l \in LaunchArgs : l.alias = <<"c", "B">>} }

\* how far the model lets time run, and the seconds of one step of time
MaxAge == 500
TickSeconds == 200

\* files found in the script directory at startup: scripts that earlier
\* launches left, of both kinds and of three ages, and files of another
\* origin: one with the name of a script and no marker, one with the marker
\* and another name
FoundFiles ==
    { File(ScriptName("8"),
           _generate_script_content(<<"a">>, <<"x">>, "link", BinBash), 400, TRUE, "launch"),
      File(ScriptName("7"),
           _generate_script_content(<<"c">>, <<"x">>, "chain", BinZsh), 10, TRUE, "launch"),
      File(ScriptName("6"),
           _generate_script_content(<<"a">>, <<"x">>, "link", BinBash), 300, TRUE, "launch"),
      File(<<"my", "_ql.sh">>, <<"#!/bin/bash LF", "echo LF">>, 400, TRUE, "other"),
      File(<<"notes", ".txt">>, <<"see ">> \o Marker, 400, FALSE, "other") }

\* the last call of a sweep (count: the scripts it removed, one printed
\* line each for the sweep by age, the value returned for `cleanup`;
\* refused: the names of the files that raised in it), of os.execv or of
\* get_key, "none" after any other operation; the operations of this part
\* leave the screens alone
Did(op, count, argv) ==
    /\ last' = [op |-> op, count |-> count, argv |-> argv, refused |-> {}]
    /\ UNCHANGED <<vars, matchvars, sweepvars>>

\* the process is in QLLauncher.__init__, the terminal in one of its line
\* modes
LaunchInit ==
    /\ platform = "termios"
    /\ ScreensInitFrom(LaunchStores)
    /\ MatchIdle
    /\ SweepIdle
    /\ term \in {"cooked", "cbreak"}
    /\ old_settings = "none"
    /\ at = "init"
    /\ tmp \in {[exists |-> FALSE, files |-> {}]}
                 \cup {[exists |-> TRUE, files |-> fs] : fs \in SUBSET FoundFiles}
    /\ job = NoJob
    /\ out = <<>>
    /\ last = NoCall

\* QLLauncher.__init__: the sweep of the scripts that earlier sessions left;
\* refused: the names of the files that raise in it
Startup ==
    \E refused \in SUBSET OldCandidates(tmp.files) :
        /\ at = "init"
        /\ at' = "loop"
        /\ tmp' = SweepOld(tmp, refused).tmp
        /\ last' = SweepOld(tmp, refused).last
        /\ UNCHANGED <<term, old_settings, job, out, vars, matchvars, sweepvars>>

\* time passes while the loop waits
Tick ==
    /\ at = "loop"
    /\ tmp.files # {}
    /\ \A f \in tmp.files : f.age + TickSeconds <= MaxAge
    /\ tmp' = [tmp EXCEPT !.files = {[f EXCEPT !.age = @ + TickSeconds] : f \in tmp.files}]
    /\ Did("none", 0, <<>>)
    /\ UNCHANGED <<term, old_settings, at, job, out>>

\* get_key up to the read: tcgetattr, tty.setraw
GetKeyEnter ==
    /\ at = "loop"
    /\ old_settings' = term
    /\ term' = "raw"
    /\ at' = "reading"
    /\ Did("none", 0, <<>>)
    /\ UNCHANGED <<tmp, job, out>>

\* get_key from the read on: it returns a key ("key"), the read raises
\* OSError ("read_error") or KeyboardInterrupt ("interrupt"); the finally
\* clause runs on each way out
GetKeyLeave ==
    \E how \in {"key", "read_error", "interrupt"} :
        /\ at = "reading"
        /\ term' = Restored(how, old_settings, term)
        /\ old_settings' = "none"
        /\ at' = (IF how = "interrupt" THEN "exited" ELSE "loop")
        /\ Did(how, 0, <<>>)
        /\ UNCHANGED <<tmp, job, out>>

\* the `cleanup` line: force_cleanup_all_scripts (refused: the names of the
\* files that raise in it), the message and the closing prompt; a
\* KeyboardInterrupt at the prompt (interrupted) ends the loop
SweepAll ==
    \E refused \in SUBSET Candidates(tmp.files), interrupted \in BOOLEAN :
        /\ at = "loop"
        /\ at' = (IF interrupted THEN "exited" ELSE "loop")
        /\ tmp' = SweepAllOf(tmp, refused).tmp
        /\ last' = SweepAllOf(tmp, refused).last
        /\ UNCHANGED <<term, old_settings, job, out, vars, matchvars, sweepvars>>

\* run_command_and_exit of a stored entry up to the call of
\* _create_execution_script: the sweep (refused: the names of the files that
\* raise in it), the usage count and the move to the front with the write of
\* the stores, then the checks, which the run passes (proceeds) or not
RunBegin ==
    \E i \in 1..Len(commands), env \in EnvShells, proceeds \in BOOLEAN,
       refused \in SUBSET OldCandidates(tmp.files) :
        LET a == [alias |-> commands[i].alias, command |-> commands[i].command,
                  type |-> commands[i].type]
        IN  /\ at = "loop"
            /\ writes < MaxWrites
            /\ tmp' = SweepOld(tmp, refused).tmp
            /\ usage_count' = update_usage_stats(usage_count, a.alias)
            /\ commands' = move_command_to_front(commands, a.alias)
            /\ writes' = writes + 1
            /\ job' = (IF proceeds THEN NewJob(a, env) ELSE NoJob)
            /\ at' = (IF proceeds THEN "mkdir" ELSE "loop")
            /\ out' = <<>>
            /\ last' = SweepOld(tmp, refused).last
            /\ UNCHANGED <<term, old_settings, ui, templates, current_mode, pc, exit_by,
                           key, exc, run_request, launch, typed, handoff, platform,
                           matchvars, sweepvars>>

\* run_direct_command up to the call of _create_execution_script
DirectBegin ==
    \E a \in LaunchArgs, env \in EnvShells :
        /\ at = "loop"
        /\ a.alias = DirectAlias
        /\ job' = NewJob(a, env)
        /\ at' = "mkdir"
        /\ out' = <<>>
        /\ Did("none", 0, <<>>)
        /\ UNCHANGED <<term, old_settings, tmp>>

\* the file of the launch under way
JobFiles == {f \in tmp.files : f.name = job.path}

\* the text the launch under way writes
JobContent == _generate_script_content(job.alias, job.command, job.type, job.shell)

\* one step of _create_execution_script; ok: it does not raise.  write
\* fills the buffer of the file object and close writes the buffer to the
\* file.  A step that raises OSError ends in the except clause, which
\* prints, waits at its prompt and returns None: the caller returns to the
\* loop; a KeyboardInterrupt at the prompt (interrupted) ends the loop.
CreationStep ==
    \E ok \in BOOLEAN, r \in RandomParts, interrupted \in BOOLEAN :
        /\ at \in CreationSteps
        /\ at = "mkdir" /\ tmp.exists => ok
        /\ at = "create" /\ ok => \A f \in tmp.files : f.name # ScriptName(r)
        /\ interrupted => ~ok
        /\ at' = (IF ok THEN NextStep(at) ELSE IF interrupted THEN "exited" ELSE "loop")
        /\ job' = JobAfterStep(job, at, ok, r)
        /\ tmp' = AfterStep(tmp, job, at, ok, r)
        /\ Did("none", 0, <<>>)
        /\ UNCHANGED <<term, old_settings, out>>

\* os.execv and, when it raises OSError, the except clause: unlink, the
\* prompt, return; a KeyboardInterrupt at the prompt (interrupted) ends the
\* loop.  The shell that os.execv started has not yet run a line of the
\* script.
Execv ==
    \E ok \in BOOLEAN, interrupted \in BOOLEAN :
        /\ at = "execv"
        /\ interrupted => ~ok
        /\ job' = (IF ok THEN [job EXCEPT !.trail = Append(@, at), !.next = 1] ELSE NoJob)
        /\ at' = (IF ok THEN "body" ELSE IF interrupted THEN "exited" ELSE "loop")
        /\ tmp' = (IF ok THEN tmp ELSE [tmp EXCEPT !.files = Unlink(@, job.path)])
        /\ Did("execv", 0, ExecCall(job.path))
        /\ UNCHANGED <<term, old_settings, out>>

\* how many signals one script receives
MaxSignals == 1

\* what the script has done so far; ok of a signal: the trap line had run
\* when it arrived
Event(what, n, ok) == [what |-> what, n |-> n, ok |-> ok]

\* the first command of the script: trap '...' EXIT INT TERM
ScriptTrap ==
    /\ at = "body"
    /\ ~job.trap
    /\ job' = [job EXCEPT !.trap = TRUE]
    /\ Did("none", 0, <<>>)
    /\ UNCHANGED <<term, old_settings, at, tmp, out>>

\* the script runs the next command of its body; ok: the command succeeds.
\* A command that fails ends the && list.  Under `set -e` (chain) the shell
\* exits, running the EXIT trap, when the failed command is the last of the
\* list; after any other failed command the script goes on.
ScriptBodyStep ==
    \E ok \in BOOLEAN :
        /\ at = "body"
        /\ job.trap
        /\ out' = Append(out, Event("step", job.next, ok))
        /\ LET last_of_list == job.next = StepCount(job.command)
               aborts == ~ok /\ job.type = "chain" /\ last_of_list
           IN  /\ at' = (IF aborts THEN "script_exited"
                         ELSE IF ok /\ ~last_of_list THEN "body" ELSE "banner")
               /\ job' = [job EXCEPT !.next = IF ok /\ ~last_of_list THEN @ + 1 ELSE @,
                                     !.failed = ~ok]
               /\ tmp' = (IF aborts
                          THEN [tmp EXCEPT !.files = TrapRemoves(@, job.path)]
                          ELSE tmp)
        /\ Did("none", 0, <<>>)
        /\ UNCHANGED <<term, old_settings>>

\* the lines after the body: the banner (the chain script has only the
\* banner of success) and the rm before the exec
ScriptBanner ==
    /\ at = "banner"
    /\ out' = Append(out, Event("banner", 0, job.type = "chain" \/ ~job.failed))
    /\ tmp' = [tmp EXCEPT !.files = Unlink(@, job.path)]
    /\ at' = "exec_shell"
    /\ Did("none", 0, <<>>)
    /\ UNCHANGED <<term, old_settings, job>>

\* exec {shell}; when it fails the script exits, running the EXIT trap
ScriptExecShell ==
    \E ok \in BOOLEAN :
        /\ at = "exec_shell"
        /\ at' = (IF ok THEN "shell" ELSE "script_exited")
        /\ tmp' = (IF ok THEN tmp ELSE [tmp EXCEPT !.files = TrapRemoves(@, job.path)])
        /\ Did("none", 0, <<>>)
        /\ UNCHANGED <<term, old_settings, job, out>>

\* INT or TERM reaches the script.  Once the trap line has run, the trap
\* runs and the script goes on; before it, the signal has its default
\* action: the shell is killed and nothing removes the file
ScriptSignal ==
    \E sig \in {"INT", "TERM"} :
        /\ at \in {"body", "banner", "exec_shell"}
        /\ Cardinality({i \in 1..Len(out) : out[i].what \in {"INT", "TERM"}}) < MaxSignals
        /\ out' = Append(out, Event(sig, 0, job.trap))
        /\ tmp' = (IF job.trap THEN [tmp EXCEPT !.files = TrapRemoves(@, job.path)]
                   ELSE tmp)
        /\ at' = (IF job.trap THEN at ELSE "script_killed")
        /\ Did("none", 0, <<>>)
        /\ UNCHANGED <<term, old_settings, job>>

LaunchNext ==
    \/ Startup \/ Tick \/ GetKeyEnter \/ GetKeyLeave \/ SweepAll \/ RunBegin
    \/ DirectBegin \/ CreationStep \/ Execv \/ ScriptTrap \/ ScriptBodyStep
    \/ ScriptBanner
    \/ ScriptExecShell \/ ScriptSignal

LaunchSpec == LaunchInit /\ [][LaunchNext]_iovars

(***************************************************************************)
(* The matcher of the filter.  The command screen is in Filter mode; the    *)
(* user types the pattern, and fuzzy_match is called with a text and the    *)
(* filter text, as get_filtered_commands and get_filtered_templates call it *)
(* with each field of each entry.                                           *)
(***************************************************************************)
\* the longest text matched
MaxText == 3
\* the longest pattern typed
MaxPattern == 3

\* the characters of the texts and of the patterns
MatchChars == {"a", "b", "c", "A", CapitalSigma}

\* the strings of at most n characters of chars
StringsUpTo(chars, n) == UNION {[1..m -> chars] : m \in 0..n}

\* an entry whose alias holds a capital sigma between two letters
es == [alias |-> <<"A", CapitalSigma, "A">>, type |-> "link", command |-> <<"x">>,
       description |-> <<>>, tags |-> <<>>]

\* the command files a session that filters starts from
MatchStores == {<<ea, es>>}

\* QLLauncher.__init__, with a text to match
MatchInit ==
    /\ platform = "termios"
    /\ selected_index = 0
    /\ input_buffer = <<>>
    /\ input_mode = FALSE
    /\ filter_mode = FALSE
    /\ filter_text = <<>>
    /\ show_preview = TRUE
    /\ commands \in MatchStores
    /\ usage_count = [a \in Aliases |-> 0]
    /\ templates \in InitTemplates
    /\ current_mode = "command"
    /\ pc = "command"
    /\ exit_by = "none"
    /\ key = NoKey
    /\ exc = FALSE
    /\ run_request = NoAlias
    /\ launch = NoLaunch
    /\ typed = NoText
    /\ writes = 0
    /\ handoff = "none"
    /\ IoIdle
    /\ SweepIdle
    /\ match_text \in StringsUpTo(MatchChars, MaxText)
    /\ matched = <<>>

\* a dispatch of the command screen that changes the filter: the lists are
\* filtered anew, an earlier result of fuzzy_match is void
FilterChanged(k) ==
    /\ key' = k
    /\ exc' = FALSE
    /\ run_request' = NoAlias
    /\ launch' = NoLaunch
    /\ handoff' = "none"
    /\ typed' = NoText
    /\ match_text' = match_text
    /\ matched' = <<>>
    /\ UNCHANGED <<show_preview, stores, current_mode, pc, exit_by, platform>>
    /\ UNCHANGED <<iovars, sweepvars>>

\* '/' in Normal mode
MatchSlash ==
    /\ pc = "command" /\ ~filter_mode
    /\ CmdBranch(<<"/">>) = "slash"
    /\ EnterFilterMode
    /\ FilterChanged(<<"/">>)

\* a printable key in Filter mode
MatchType ==
    \E c \in MatchChars :
        /\ pc = "command" /\ filter_mode
        /\ Len(filter_text) < MaxPattern
        /\ CmdBranch(<<c>>) = "printable"
        /\ AppendPrintable(<<c>>)
        /\ FilterChanged(<<c>>)

\* one call fuzzy_match(text, self.ui.filter_text) while the list is drawn
Match ==
    /\ pc = "command" /\ filter_mode
    /\ matched = <<>>
    /\ matched' = <<fuzzy_match(match_text, filter_text)>>
    /\ UNCHANGED <<vars, iovars, sweepvars, match_text>>

MatchNext == MatchSlash \/ MatchType \/ Match

MatchSpec == MatchInit /\ [][MatchNext]_<<vars, matchvars>>

(***************************************************************************)
(* The sweeps of the script directory, file by file.  Two launcher          *)
(* processes share the directory; each may run cleanup_old_scripts (at its  *)
(* startup or before a run) or force_cleanup_all_scripts (the `cleanup`     *)
(* line), one line of the loop body at a time, while the other sweeps and   *)
(* while a script that a launcher handed off ends and removes itself.       *)
(***************************************************************************)
\* the names of two scripts left long ago, of a script just written, and of
\* a file of another origin that has the name of a script
OldScriptA == ScriptName("8")
OldScriptB == ScriptName("9")
NewScript == ScriptName("7")
OtherFile == <<"my", "_ql.sh">>

\* the files of the script directory when the sweeps start
SweepFiles ==
    { File(OldScriptA,
           _generate_script_content(<<"a">>, <<"x">>, "link", BinBash), 400, TRUE, "launch"),
      File(OldScriptB,
           _generate_script_content(<<"c">>, <<"x">>, "chain", BinZsh), 400, TRUE, "launch"),
      File(NewScript,
           _generate_script_content(<<"a">>, <<"x">>, "link", BinBash), 10, TRUE, "launch"),
      File(OtherFile, <<"#!/bin/bash LF", "echo LF">>, 400, TRUE, "other"),
      File(<<"notes", ".txt">>, <<"see ">> \o Marker, 400, FALSE, "other") }

\* the order in which the directory lists its entries
Listing == <<OldScriptA, OldScriptB, NewScript, OtherFile, <<"notes", ".txt">> >>

\* os.path.exists(path)
Exists(files, path) == \E f \in files : f.name = path
FileAt(files, path) == CHOOSE f \in files : f.name = path

\* glob.glob(str(script_dir / '*_ql.sh')): the paths that match, as listed
Glob(files) == SelectSeq(Listing, LAMBDA n : MatchesPattern(n) /\ Exists(files, n))

\* the loop goes on with the next path, or ends after the last one
NextPath(s) ==
    [s EXCEPT !.todo = Tail(s.todo),
              !.at = IF Len(s.todo) > 1 THEN "exists" ELSE "done"]

\* except (OSError, IOError): pass
Caught(s) == NextPath([s EXCEPT !.failed = s.failed \cup {Head(s.todo)}])

\* an unlink line that counts the file before it removes it
UnlinkCountsFirst(s, ok) ==
    IF ok
    THEN NextPath([s EXCEPT !.cleaned = s.cleaned + 1,
                            !.removed = s.removed \cup {Head(s.todo)}])
    ELSE Caught([s EXCEPT !.cleaned = s.cleaned + 1])

\* os.unlink(script_path) and the line after it (cleaned += 1, or the
\* printed line of cleanup_old_scripts), ok telling whether the unlink succeeded
UnlinkAndCount(s, ok) ==
    IF ok
    THEN NextPath([s EXCEPT !.cleaned = s.cleaned + 1,
                            !.removed = s.removed \cup {Head(s.todo)}])
    ELSE Caught(s)

\* the directory with the sweeps about to start: some files unreadable or
\* not removable, a handed-off script still executing
SweepInit ==
    /\ platform = "termios"
    /\ ScreensInit
    /\ MatchIdle
    /\ term = "cooked"
    /\ old_settings = "none"
    /\ at = "loop"
    /\ tmp \in {[exists |-> FALSE, files |-> {}], [exists |-> TRUE, files |-> SweepFiles]}
    /\ job = NoJob
    /\ out = <<>>
    /\ last = NoCall
    /\ sweeps = [i \in Sweepers |-> NoSweep]
    /\ perms \in [unreadable : SUBSET {OldScriptA}, undeletable : SUBSET {OldScriptA}]
    /\ running \in {r \in SUBSET {OldScriptB} : \A n \in r : Exists(tmp.files, n)}

\* sweeper i moves to s; the directory holds files
SweepStep(i, s, files) ==
    /\ sweeps' = [sweeps EXCEPT ![i] = s]
    /\ tmp' = [tmp EXCEPT !.files = files]
    /\ UNCHANGED <<vars, matchvars, term, old_settings, at, job, out, last, perms, running>>

\* the first lines of both sweeps: return when the directory is missing,
\* else list the candidates
SweepStart ==
    \E i \in Sweepers, kind \in {"sweep", "cleanup"} :
        /\ sweeps[i].at = "idle"
        /\ LET paths == Glob(tmp.files)
           IN  SweepStep(i, [sweeps[i] EXCEPT
                                !.kind = kind,
                                !.todo = IF tmp.exists THEN paths ELSE <<>>,
                                !.at = IF tmp.exists /\ paths # <<>> THEN "exists" ELSE "done"],
                         tmp.files)

\* if os.path.exists(script_path)
SweepExists ==
    \E i \in Sweepers :
        /\ sweeps[i].at = "exists"
        /\ LET s == sweeps[i]
           IN  SweepStep(i, IF Exists(tmp.files, Head(s.todo))
                            THEN [s EXCEPT !.at = IF s.kind = "sweep" THEN "getmtime" ELSE "open"]
                            ELSE NextPath(s),
                         tmp.files)

\* age = time.time() - os.path.getmtime(script_path); if age > 300
SweepGetmtime ==
    \E i \in Sweepers :
        /\ sweeps[i].at = "getmtime"
        /\ LET s == sweeps[i]
               path == Head(s.todo)
           IN  SweepStep(i, IF ~Exists(tmp.files, path) THEN Caught(s)
                            ELSE IF FileAt(tmp.files, path).age > SweepAge
                                 THEN [s EXCEPT !.at = "open"]
                                 ELSE NextPath(s),
                         tmp.files)

\* with open(script_path, 'r', ...) as f: content = f.read();
\* if '# QL Command Executor' in content
SweepOpen ==
    \E i \in Sweepers :
        /\ sweeps[i].at = "open"
        /\ LET s == sweeps[i]
               path == Head(s.todo)
           IN  SweepStep(i, IF ~Exists(tmp.files, path) \/ path \in perms.unreadable
                            THEN Caught(s)
                            ELSE IF HasMarker(FileAt(tmp.files, path).content)
                                 THEN [s EXCEPT !.at = "unlink"]
                                 ELSE NextPath(s),
                         tmp.files)

\* os.unlink(script_path) and the count
SweepUnlink ==
    \E i \in Sweepers :
        /\ sweeps[i].at = "unlink"
        /\ LET s == sweeps[i]
               path == Head(s.todo)
               ok == Exists(tmp.files, path) /\ path \notin perms.undeletable
           IN  SweepStep(i, UnlinkAndCount(s, ok),
                         IF ok THEN Unlink(tmp.files, path) ELSE tmp.files)

\* a script that was executing ends: its trap removes its file
ScriptEnds ==
    \E n \in running :
        /\ running' = running \ {n}
        /\ tmp' = [tmp EXCEPT !.files = TrapRemoves(tmp.files, n)]
        /\ UNCHANGED <<vars, matchvars, term, old_settings, at, job, out, last, sweeps, perms>>

SweepNext ==
    \/ SweepStart \/ SweepExists \/ SweepGetmtime \/ SweepOpen \/ SweepUnlink
    \/ ScriptEnds

SweepSpec == SweepInit /\ [][SweepNext]_<<tmp, sweepvars>>

(***************************************************************************)
(* Properties.                                                              *)
(***************************************************************************)
\* control is in one of the two loops
Running == pc \in {"command", "template", "nested"}

\* Normal mode: neither TextInput nor Filter
NormalMode == ~input_mode /\ ~filter_mode

\* the list on screen, as identifiers
DisplayedNames ==
    IF pc = "command"
    THEN [i \in 1..Len(display_commands) |-> display_commands[i].alias]
    ELSE [i \in 1..Len(display_templates) |-> display_templates[i].name]

\* a key that is one typed character
OneChar(k) == Len(k) = 1 /\ k[1] \in TypedChars

\* C1: whenever the displayed list is not empty, selected_index is an index
\* of it
C1_SelectionInBounds ==
    (Running /\ DisplayedNames # <<>>)
        => (0 <= selected_index /\ selected_index < Len(DisplayedNames))

\* C2: input_mode and filter_mode are never both true, on either screen
C2_OneModeActive == ~(input_mode /\ filter_mode)

\* C2 witness: '/' was pressed in TextInput mode and went to the buffer
C2_SlashTypedInTextInput ==
    /\ Running
    /\ key = <<"/">>
    /\ input_mode /\ ~filter_mode
    /\ input_buffer # <<>> /\ input_buffer[Len(input_buffer)] = "/"

\* the ways of leaving that are the user's own quit
QuitActions == {"quit", "q_key", "escape", "ctrl_c", "interrupt"}

\* C3: the loop is left only by a quit action of the user or by a process
\* replacement; a template run or a command run that does not replace the
\* process leaves control in the loop
C3_EndsOnlyByQuitOrExec ==
    [][(Running /\ pc' \notin {"command", "template", "nested"})
           => \/ pc' = "replaced" /\ launch' # NoLaunch
              \/ pc' = "exited" /\ run_request' = NoAlias /\ exit_by' \in QuitActions]_vars

\* C4: Enter in Normal mode on the command screen hands the entry at
\* selected_index to the launch with its alias, body and kind when the list
\* is not empty (a dangerous body may stop at its confirmation), and launches
\* nothing when the list is empty
C4_EnterLaunchesSelected ==
    [][(pc = "command" /\ NormalMode /\ key' = <<"CR">>)
           => IF display_commands # <<>>
              THEN /\ SelectionInRange(display_commands)
                   /\ LET e == display_commands[selected_index + 1]
                          args == [alias |-> e.alias, command |-> e.command,
                                   type |-> e.type]
                      IN  /\ run_request' = e.alias
                          /\ \/ launch' = args
                             \/ is_dangerous_command(e.command) /\ launch' = NoLaunch
              ELSE run_request' = NoAlias /\ launch' = NoLaunch]_vars

\* C5: on both screens a digit d requests a run exactly when the mode is
\* Normal, d is 1..9 and d-1 is an index of the displayed list below 9, and
\* then the run is of the entry at position d-1
C5_DigitQuickSelect ==
    [][(Running /\ OneChar(key') /\ IsDigit(key'))
           => LET d == DigitValue(key'[1])
                  runs == /\ NormalMode
                          /\ d >= 1
                          /\ d - 1 < Len(DisplayedNames)
                          /\ d - 1 < 9
              IN  IF runs
                  THEN run_request' = DisplayedNames[d]
                  ELSE run_request' = NoAlias /\ launch' = NoLaunch]_vars

\* C5 witness: digit 1 ran the first entry of a filtered list and the process
\* was replaced
C5_DigitRanFilteredEntry ==
    /\ key = <<"1">>
    /\ filter_text # <<>>
    /\ run_request \in Aliases
    /\ launch.alias = run_request
    /\ pc = "replaced"

\* Matches on at least one of alias, command, description and tags
MatchesEntry(e, t) ==
    \E field \in {e.alias, e.command, e.description, JoinFrom(e.tags, 1)} :
        fuzzy_match(field, t)

\* the store entries that match t, in store order
Matching(cmds, t) == SelectSeq(cmds, LAMBDA e : MatchesEntry(e, t))

\* Enter committed the text t typed since '/'
FilterCommitted(t) ==
    /\ ~filter_mode' /\ ~input_mode'
    /\ selected_index' = 0
    /\ get_filtered_commands(commands', filter_text') = Matching(commands', t)

\* C6 as stated: after '/', any typed text t and Enter, the mode is Normal,
\* selected_index is 0 and the list is the entries that match t
C6_FilterCommitShowsMatches ==
    [][(pc = "command" /\ filter_mode /\ typed # NoText /\ key' = <<"CR">>)
           => FilterCommitted(typed)]_vars

\* C6 amended: the same for a typed text t that contains no '/'
C6_FilterCommitShowsMatchesNoSlash ==
    [][(pc = "command" /\ filter_mode /\ typed # NoText /\ key' = <<"CR">>
        /\ \A i \in 1..Len(typed) : typed[i] # "/")
           => FilterCommitted(typed)]_vars

\* C6 witness: "a" was typed after '/' and committed; the list is the two
\* entries that match it, one of them by its tags alone
C6_FilterCommitted ==
    /\ pc = "command"
    /\ key = <<"CR">>
    /\ typed = <<"a">>
    /\ NormalMode
    /\ selected_index = 0
    /\ Len(display_commands) = 2
    /\ Len(commands) = 3

\* the characters with an action in Normal mode, per screen
NormalModeChars ==
    IF pc = "command"
    THEN Digits \cup {"p", "/"}
    ELSE Digits \cup {"e", "d", "r", "n", "c", "p", "q", "/"}

\* nothing but the buffers and the mode changes: no quit, no run, no screen switch
NoOtherAction ==
    /\ pc' = pc
    /\ current_mode' = current_mode
    /\ run_request' = NoAlias
    /\ launch' = NoLaunch
    /\ UNCHANGED <<show_preview, stores>>

\* C7: a printable character other than '/' is appended to filter_text in
\* Filter mode and to input_buffer in TextInput mode with no other action,
\* and one without a Normal-mode action starts TextInput mode in Normal mode
C7_PrintableGoesToBuffer ==
    [][(Running /\ OneChar(key') /\ key' # <<"/">>)
           => IF filter_mode
              THEN filter_text' = filter_text \o key' /\ NoOtherAction
              ELSE IF input_mode
              THEN input_buffer' = input_buffer \o key' /\ input_mode' /\ NoOtherAction
              ELSE key'[1] \notin NormalModeChars
                       => input_mode' /\ input_buffer' = key' /\ NoOtherAction]_vars

\* the keys reserved for dry run, copy, preview toggle and screen switch
ReservedKeys == {<<"EOT">>, <<"EM">>, <<"p">>, <<"DC4">>}

\* C8: in Filter and TextInput mode the reserved keys leave show_preview,
\* the screen, the mode and selected_index as they were
C8_ReservedKeysIgnored ==
    [][(Running /\ (filter_mode \/ input_mode) /\ key' \in ReservedKeys)
           => UNCHANGED <<show_preview, pc, current_mode, input_mode, filter_mode,
                          selected_index>>]_vars

\* C9: Ctrl+C and the interrupt signal end the loop from every screen
C9_InterruptEndsLoop ==
    [][(Running /\ key' \in {<<"ETX">>, Interrupt}) => pc' = "exited"]_vars

\* C10: an exception raised while one key is handled leaves control in a
\* loop, which reads the next key
C10_ExceptionKeepsLoop ==
    [][(Running /\ exc') => pc' \in {"command", "template", "nested"}]_vars

\* C10 witness: the run of the dangerous entry raised and the command loop
\* goes on
C10_RunRaisedLoopGoesOn ==
    /\ exc
    /\ run_request = <<"c">>
    /\ launch = NoLaunch
    /\ pc = "command"

\* the first word of a line, as typed
FirstToken(line) == Split(line)[1]

\* the words parse_input takes as actions before it looks for an alias
ActionVerbs ==
    { <<"a","d","d">>, <<"c","h","a","i","n">>, <<"e","d","i","t">>,
      <<"r","e","m","o","v","e">>, <<"t","e","m","p","l","a","t","e">>,
      <<"t","e","m","p","l","a","t","e","s">>, <<"e","x","p","o","r","t">>,
      <<"i","m","p","o","r","t">>, <<"h","e","l","p">>,
      <<"c","l","e","a","n","u","p">>, <<"q","u","i","t">>, <<"q">>,
      <<"e","x","i","t">> }

\* Enter commits a line with text on the command screen
CommitsTypedLine ==
    /\ pc = "command"
    /\ input_mode
    /\ ~filter_mode
    /\ HasText(input_buffer)
    /\ key' = <<"CR">>

\* C11: after Enter has committed a line that does not end the session,
\* input_buffer is empty, whatever the outcome of the line
C11_CommitClearsBuffer ==
    [][(CommitsTypedLine /\ pc' \in {"command", "template", "nested"})
           => input_buffer' = <<>>]_vars

\* C12: committing a line whose first word is a stored alias, as stored, and
\* not an action verb requests a run of that alias
C12_StoredAliasRuns ==
    [][(/\ CommitsTypedLine
        /\ HasAlias(commands, FirstToken(input_buffer))
        /\ FirstToken(input_buffer) \notin ActionVerbs)
           => run_request' = FirstToken(input_buffer)]_vars

\* C13: Escape in Normal mode on the template screen hands control back to
\* the command screen, however the template screen was entered
C13_EscapeBackToCommands ==
    [][(pc \in {"template", "nested"} /\ NormalMode /\ key' = <<"ESC">>)
           => pc' = "command"]_vars

\* C14: in Normal mode over a list of n >= 1 entries Down moves the selection
\* to min(n - 1, selected_index + 1) and Up to max(0, selected_index - 1)
C14_ArrowsClamp ==
    [][(/\ Running
        /\ NormalMode
        /\ Len(DisplayedNames) >= 1
        /\ key' \in {KEY_UP, KEY_DOWN})
           => LET n == Len(DisplayedNames)
                  down == IF n - 1 < selected_index + 1
                          THEN n - 1 ELSE selected_index + 1
                  up == IF selected_index - 1 > 0 THEN selected_index - 1 ELSE 0
              IN  selected_index' = (IF key' = KEY_DOWN THEN down ELSE up)]_vars

\* C14 witness: Down was pressed on the last of three entries and the
\* selection stayed there
C14_DownOnLastEntry ==
    /\ key = KEY_DOWN
    /\ pc = "command"
    /\ NormalMode
    /\ Len(display_commands) = 3
    /\ selected_index = 2

\* C15: Backspace in Filter mode removes only the last character of a
\* non-empty filter_text and stays in Filter mode; with an empty filter_text
\* it goes to Normal mode
C15_FilterBackspace ==
    [][(Running /\ filter_mode /\ key' = <<"DEL">>)
           => /\ UNCHANGED <<input_buffer, input_mode>>
              /\ IF filter_text # <<>>
                 THEN /\ filter_text' = SubSeq(filter_text, 1, Len(filter_text) - 1)
                      /\ filter_mode'
                 ELSE /\ filter_text' = <<>>
                      /\ ~filter_mode']_vars

\* C15 witness: Backspace removed the only character of the filter and the
\* screen is still in Filter mode
C15_EmptiedFilterStays ==
    /\ key = <<"DEL">>
    /\ filter_mode
    /\ filter_text = <<>>
    /\ selected_index = 0

\* C16: Backspace in TextInput mode removes only the last character of a
\* non-empty input_buffer and stays in TextInput mode; with an empty
\* input_buffer it goes to Normal mode
C16_InputBackspace ==
    [][(Running /\ input_mode /\ ~filter_mode /\ key' = <<"DEL">>)
           => /\ UNCHANGED <<filter_text, filter_mode>>
              /\ IF input_buffer # <<>>
                 THEN /\ input_buffer' = SubSeq(input_buffer, 1, Len(input_buffer) - 1)
                      /\ input_mode'
                 ELSE /\ input_buffer' = <<>>
                      /\ ~input_mode']_vars

\* the stored aliases that start with the buffer
AliasesWithPrefix(buffer) ==
    { commands[i].alias : i \in { j \in 1..Len(commands) :
                                     StartsWith(commands[j].alias, buffer) } }

\* C17: Tab in TextInput mode on the command screen completes the buffer to
\* the alias and a space when exactly one stored alias starts with it, and
\* leaves it alone otherwise; Tab in Normal and Filter mode changes nothing
\* of the interface
C17_TabCompletes ==
    [][(Running /\ key' = <<"TAB">>)
           => /\ UNCHANGED <<selected_index, input_mode, filter_mode, filter_text,
                             show_preview>>
              /\ IF pc = "command" /\ input_mode /\ ~filter_mode
                 THEN input_buffer' =
                          (IF Cardinality(AliasesWithPrefix(input_buffer)) = 1
                           THEN (CHOOSE a \in AliasesWithPrefix(input_buffer) : TRUE)
                                    \o <<" ">>
                           ELSE input_buffer)
                 ELSE UNCHANGED input_buffer]_vars

\* C17 witness: after Tab the buffer is the alias a and a space
C17_TabCompletedAlias ==
    /\ key = <<"TAB">>
    /\ pc = "command"
    /\ input_mode
    /\ input_buffer = <<"a", " ">>

\* C18: every step that changes filter_text leaves selected_index at 0
C18_FilterChangeResetsSelection ==
    [][filter_text' # filter_text => selected_index' = 0]_vars

\* C18 witness: '/' opened an empty filter on the command screen, the
\* selection on the first entry
C18_SlashOpenedFilter ==
    /\ key = <<"/">>
    /\ pc = "command"
    /\ filter_mode
    /\ filter_text = <<>>
    /\ typed = <<>>
    /\ selected_index = 0

\* C19: a failed read of the key ends the loop
C19_ReadFailureEndsLoop ==
    [][(Running /\ key' = NoKey /\ exc') => pc' = "exited"]_vars

\* C20: every key that starts with the escape byte, the four cursor keys
\* apart, is handled as Escape: an active Filter or TextInput mode is left
\* and its text cleared
C20_EscapeSequenceIsEscape ==
    [][(Running /\ key'[1] = "ESC")
           => /\ ~filter_mode'
              /\ ~input_mode'
              /\ filter_mode => filter_text' = <<>>
              /\ input_mode => input_buffer' = <<>>]_vars

(***************************************************************************)
(* Reading a key, launching and sweeping                                    *)
(***************************************************************************)
\* the steps of a launch, in the order the launch takes them
LaunchOrder == <<"mkdir", "create", "write", "close", "chmod", "execv">>

\* C21: a read saves the mode in force and switches to raw mode; when the
\* read is over, by a key, by a read error or by an interrupt, the mode is
\* the saved one again; the terminal is in raw mode only during a read
C21_RawModeOnlyDuringRead ==
    [][/\ term' = "raw" => at' = "reading"
       /\ (at # "reading" /\ at' = "reading") => old_settings' = term
       /\ (at = "reading" /\ at' # "reading")
             => term' = old_settings /\ term' # "raw"]_iovars

\* C21 witness: a read that started in cbreak mode raised a read error and
\* the terminal is in cbreak mode
C21_ModeBackAfterReadError ==
    /\ last.op = "read_error"
    /\ at = "loop"
    /\ term = "cbreak"

\* C22: the steps a launch has taken are the first steps of the launch
\* order and each of them succeeded; os.execv is reached with all five
\* steps before it taken; a file that a launch made executable is closed
\* and holds the whole text of its script
C22_LaunchStepsInOrder ==
    /\ StartsWith(LaunchOrder, job.trail)
    /\ at \in CreationSteps \cup {"execv"}
          => at = LaunchOrder[Len(job.trail) + 1]
    /\ at = "execv" => JobFiles # {}
    /\ \A f \in JobFiles :
          /\ f.executable => ~f.open /\ f.content = JobContent
          /\ at = "execv" => f.executable
    /\ \A f \in tmp.files :
          (f.origin = "launch" /\ f.executable) => ~f.open /\ f.content # <<>>

\* C22 witness: os.execv replaced the process after the six steps, the
\* script complete and executable
C22_ReplacedAfterAllSteps ==
    /\ at = "body"
    /\ job.trail = LaunchOrder
    /\ \E f \in JobFiles : f.executable /\ f.content = JobContent
\* C23: after a failed os.execv the launcher is alive and the command screen
\* is in Normal mode
C23_FailedReplacementBackToNormal ==
    [][(Running /\ handoff' = "exec_failed")
           => pc' = "command" /\ NormalMode']_vars
\* C24 as stated: os.execv runs the resolved shell with the script path as
\* its only argument
C24_ReplacementRunsResolvedShell ==
    [][last'.op = "execv"
          => last'.argv = <<job.shell, <<job.shell, job.path>>>>]_iovars

\* the shell that SHELL and the paths that exist resolve to
ShellOf(env) == IF env \in ExistingPaths THEN env ELSE BinBash

\* C24 amended: os.execv runs /bin/bash with the path of the script of the
\* launch as its only argument, and the last line of that script is the
\* exec of the resolved shell
C24_ReplacementRunsBashOnScript ==
    [][last'.op = "execv"
          => /\ last'.argv = <<BinBash, <<BinBash, job.path>>>>
             /\ \E f \in tmp.files :
                   /\ f.name = job.path
                   /\ SubSeq(f.content, Len(f.content) - 2, Len(f.content))
                         = <<"exec ">> \o ShellOf(job.env) \o <<"LF">>]_iovars

\* C24 witness: with SHELL an existing /bin/zsh, os.execv replaced the
\* process by /bin/bash on the script
C24_BashRunsScriptOfZshUser ==
    /\ last.op = "execv"
    /\ at = "body"
    /\ job.env = BinZsh
    /\ last.argv = <<BinBash, <<BinBash, job.path>>>>

\* the files that launches created and no longer write to
CreatedScripts == {f \in tmp.files : f.origin = "launch" /\ ~f.open}

\* C25: every file that a launch created has a name that matches the
\* pattern of the sweeps and holds the marker, and the `cleanup` line
\* removes every such file that is present and that it can read and unlink
C25_SweepAllKnowsEveryScript ==
    [][/\ \A f \in CreatedScripts' : MatchesPattern(f.name) /\ HasMarker(f.content)
       /\ last'.op = "cleanup"
             => \A f \in CreatedScripts :
                   f.name \notin last'.refused => f \notin tmp'.files]_iovars

\* content.count(p)
Occurrences(p, t) ==
    Cardinality({k \in 0..(Len(t) - Len(p)) : SubSeq(t, k + 1, k + Len(p)) = p})

\* C26 as stated: the script of a launch that replaced the process holds
\* the marker exactly once
C26_MarkerExactlyOnce ==
    at = "body" => \A f \in JobFiles : Occurrences(Marker, f.content) = 1

\* C26 amended: when neither the identifier nor the body holds the marker
\* text, the script of a launch that replaced the process holds the marker
\* exactly once
C26_MarkerOnceForPlainTexts ==
    (at = "body" /\ ~HasMarker(job.alias) /\ ~HasMarker(job.command))
        => \A f \in JobFiles : Occurrences(Marker, f.content) = 1

\* C26 witness: the script of a chain of two commands runs, the marker once
\* in its text
C26_ChainScriptHasOneMarker ==
    /\ at = "body"
    /\ job.type = "chain"
    /\ StepCount(job.command) = 2
    /\ \E f \in JobFiles : Occurrences(Marker, f.content) = 1
\* C27 as stated: a script that has ended, by the exec of the shell or by
\* exiting, has no file any more, nor has one that is about to exec the
\* shell or that a signal reached
C27_EndedScriptHasNoFile ==
    (\/ at \in {"exec_shell", "shell", "script_exited"}
     \/ \E i \in 1..Len(out) : out[i].what \in {"INT", "TERM"})
        => JobFiles = {}

\* C27 amended: a script that has ended, by the exec of the shell or by
\* exiting, has no file any more, nor has one that is about to exec the
\* shell or that a signal reached after it had run its trap line
C27_TrappedScriptLeavesNoFile ==
    (\/ at \in {"exec_shell", "shell", "script_exited"}
     \/ \E i \in 1..Len(out) : out[i].what \in {"INT", "TERM"} /\ out[i].ok)
        => JobFiles = {}

\* C27 witness: a signal reached a script in its body after the trap line,
\* the script goes on and its file is gone
C27_SignalledInBodyLeftNoFile ==
    /\ at = "body"
    /\ job.trap
    /\ \E i \in 1..Len(out) : out[i].what \in {"INT", "TERM"} /\ out[i].ok
    /\ JobFiles = {}

\* C28: after a failed command of a chain script no later command runs and
\* the banner of success is not printed
C28_ChainStopsAtFirstFailure ==
    job.type = "chain"
        => \A i \in 1..Len(out) :
              (out[i].what = "step" /\ ~out[i].ok)
                 => \A j \in (i + 1)..Len(out) : out[j].what \notin {"step", "banner"}

\* what the sweep by age removes
OldScript(f) == MatchesPattern(f.name) /\ f.age > 300 /\ HasMarker(f.content)

\* C29 as stated: the sweep by age removes exactly the files with a matching
\* name, an age above 300 seconds and the marker in their text
C29_SweepRemovesOldScriptsOnly ==
    [][last'.op = "sweep"
          => /\ tmp'.files \subseteq tmp.files
             /\ \A f \in tmp.files : f \notin tmp'.files <=> OldScript(f)]_iovars

\* C29 amended: the sweep by age removes exactly the files with a matching
\* name, an age above 300 seconds and the marker in their text at which no
\* call of the operating system raised
C29_SweepRemovesOldScriptsNotRefused ==
    [][last'.op = "sweep"
          => /\ tmp'.files \subseteq tmp.files
             /\ \A f \in tmp.files :
                   f \notin tmp'.files <=> (OldScript(f) /\ f.name \notin last'.refused)]_iovars

\* C29 witness: a sweep removed one old script and passed by another one,
\* which raised and is still there
C29_SweptOneSkippedOne ==
    /\ last.op = "sweep"
    /\ last.count = 1
    /\ \E f \in tmp.files : OldScript(f) /\ f.name \in last.refused

\* what the `cleanup` line removes
AnyScript(f) == MatchesPattern(f.name) /\ HasMarker(f.content)

\* C30 as stated: the `cleanup` line removes exactly the files with a
\* matching name and the marker in their text, of any age, and its count is
\* the number of files it removed
C30_CleanupRemovesScriptsAndCounts ==
    [][last'.op = "cleanup"
          => /\ tmp'.files \subseteq tmp.files
             /\ \A f \in tmp.files : f \notin tmp'.files <=> AnyScript(f)
             /\ last'.count = Cardinality(tmp.files \ tmp'.files)]_iovars

\* C30 amended: the `cleanup` line removes exactly the files with a matching
\* name and the marker in their text, of any age, at which no call of the
\* operating system raised, and its count is the number of files it removed
C30_CleanupRemovesScriptsNotRefused ==
    [][last'.op = "cleanup"
          => /\ tmp'.files \subseteq tmp.files
             /\ \A f \in tmp.files :
                   f \notin tmp'.files <=> (AnyScript(f) /\ f.name \notin last'.refused)
             /\ last'.count = Cardinality(tmp.files \ tmp'.files)]_iovars

\* C30 witness: `cleanup` removed two scripts, one of them too young for the
\* sweep by age, passed by a script that raised, and left the two files that
\* are no scripts
C30_CleanupRemovedTwoSkippedOne ==
    /\ last.op = "cleanup"
    /\ last.count = 2
    /\ \E f \in tmp.files : AnyScript(f) /\ f.name \in last.refused
    /\ \E f \in tmp.files : MatchesPattern(f.name) /\ ~HasMarker(f.content)
    /\ \E f \in tmp.files : ~MatchesPattern(f.name) /\ HasMarker(f.content)
(***************************************************************************)
(* The store after a run, the screens when control changes hands            *)
(***************************************************************************)
\* the entries of cmds other than alias a, in their order
Without(cmds, a) == SelectSeq(cmds, LAMBDA e : e.alias # a)

\* the command screen hands the stored alias a to run_command_and_exit
RunsStored(a) == pc = "command" /\ run_request' = a /\ HasAlias(commands, a)

\* C33: after a run of a stored alias the entry of that alias is the first
\* of the list, the other entries are in their former order, and the
\* entries are the former entries
C33_RunMovesEntryToFront ==
    [][\A a \in Aliases :
          RunsStored(a)
             => /\ commands'[1] = commands[IndexOfAlias(commands, a)]
                /\ Without(commands', a) = Without(commands, a)
                /\ Len(commands') = Len(commands)]_vars

\* C33 witness: the last entry of the store was run and is the first now,
\* before the two others in their former order
C33_LastEntryRanAndLeads ==
    /\ run_request = <<"c">>
    /\ commands = <<ec, ea, eb>>

\* C35: a run of a stored entry with a dangerous body either goes on to the
\* creation of the script or is cancelled at the prompt, no exception raised
C35_DangerousRunAsksFirst ==
    [][\A a \in Aliases :
          (RunsStored(a)
             /\ is_dangerous_command(commands[IndexOfAlias(commands, a)].command))
             => launch' # NoLaunch \/ ~exc']_vars

\* C36: Up and Down outside Normal mode or with nothing shown, and Left and
\* Right in any mode, leave both texts, the mode and the selection as they
\* were
C36_ArrowsLeaveTextsAlone ==
    [][(/\ pc = "command"
        /\ \/ key' \in {KEY_LEFT, KEY_RIGHT}
           \/ /\ key' \in {KEY_UP, KEY_DOWN}
              /\ input_mode \/ filter_mode \/ display_commands = <<>>)
          => UNCHANGED <<input_buffer, filter_text, input_mode, filter_mode,
                         selected_index>>]_vars

\* C37: when control passes from one screen to the other, the selection is
\* 0, the mode Normal and both texts are empty
C37_ScreenStartsClean ==
    [][(Running /\ Running' /\ (pc = "command") # (pc' = "command"))
          => /\ selected_index' = 0
             /\ NormalMode'
             /\ input_buffer' = <<>>
             /\ filter_text' = <<>>]_vars

\* C38: a run request that does not end in the replacement of the process
\* leaves the order of the list and the usage counts as they were
C38_FailedRunLeavesStore ==
    [][\A a \in Aliases :
          (RunsStored(a) /\ pc' # "replaced")
             => commands' = commands /\ usage_count' = usage_count]_vars
\* the step of _create_execution_script under way fails after the file of
\* the launch was created
CreationFailsAfterCreate == at \in {"write", "close", "chmod"} /\ at' = "loop"

\* C40: when the write, the close or the chmod of a launch fails, no file of
\* that launch is left in the directory
C40_FailedCreationLeavesNoFile ==
    [][CreationFailsAfterCreate
          => \A f \in tmp'.files : f.name # job.path]_iovars

RECURSIVE IsSubsequence(_, _)
\* the items of p occur in h in the order of p
IsSubsequence(p, h) ==
    IF p = <<>> THEN TRUE
    ELSE IF h = <<>> THEN FALSE
    ELSE IF Head(p) = Head(h) THEN IsSubsequence(Tail(p), Tail(h))
    ELSE IsSubsequence(p, Tail(h))

\* C34: fuzzy_match(h, p) is true exactly when the lower-case pattern is an
\* ordered subsequence of the lower-case text; so it is true of the empty
\* pattern and of every pattern that is a contiguous part of the text, true
\* of ("abc", "ac") and false of ("abc", "ca")
C34_MatchIsSubsequence ==
    matched # <<>> =>
        LET m == matched[1]
        IN  /\ m <=> IsSubsequence(Lower(filter_text), Lower(match_text))
            /\ filter_text = <<>> => m
            /\ IsSubstring(filter_text, match_text) => m
            /\ match_text = <<"a", "b", "c">> /\ filter_text = <<"a", "c">> => m
            /\ match_text = <<"a", "b", "c">> /\ filter_text = <<"c", "a">> => ~m

\* the user types one more character of the filter
TypesFilterChar == filter_mode /\ \E c \in MatchChars : filter_text' = filter_text \o <<c>>

\* C39: the list shown for a filter text followed by one more character is a
\* sub-list, in the same order, of the list shown for the filter text, on
\* both screens
C39_FilterMonotone ==
    [][TypesFilterChar =>
          /\ IsSubsequence(display_commands', display_commands)
          /\ IsSubsequence(display_templates', display_templates)]_vars

\* a file that a sweep of this kind removes when nothing hinders it
Removable(kind, f) ==
    /\ MatchesPattern(f.name)
    /\ HasMarker(f.content)
    /\ kind = "cleanup" \/ f.age > SweepAge
    /\ f.name \notin perms.unreadable \cup perms.undeletable

\* the paths a sweep has still to visit
Pending(s) == {s.todo[k] : k \in 1..Len(s.todo)}

\* C31: a sweep that meets a file it cannot read or delete, or a file that
\* another sweep or the script itself removed meanwhile, gives that file up
\* and keeps every other candidate to visit, so that a finished sweep leaves
\* no file it could remove; its count is the number of files it removed
\* itself, a file it gave up on is not counted, and no file is counted by
\* two sweeps
C31_SweepSkipsAndCounts ==
    \A i \in Sweepers :
        LET s == sweeps[i]
        IN  /\ s.cleaned = Cardinality(s.removed)
            /\ s.removed \cap s.failed = {}
            /\ \A j \in Sweepers \ {i} : s.removed \cap sweeps[j].removed = {}
            /\ \A n \in s.removed : ~Exists(tmp.files, n)
            /\ s.at # "idle" =>
                   \A f \in tmp.files : Removable(s.kind, f) => f.name \in Pending(s)
            /\ s.at = "done" => s.todo = <<>>

\* one sweep gave up on a file it may not touch and still removed and
\* counted the next one, which the other sweep found removed under its hands
C31_SweptPastErrors ==
    \E i, j \in Sweepers :
        /\ i # j
        /\ sweeps[i].at = "done" /\ sweeps[j].at = "done"
        /\ OldScriptA \in sweeps[i].failed
        /\ OldScriptA \in perms.unreadable \cup perms.undeletable
        /\ OldScriptB \in sweeps[i].removed
        /\ sweeps[i].cleaned = 1
        /\ OldScriptB \in sweeps[j].failed
        /\ sweeps[j].cleaned = 0

\* C32: a sweep by age, which a launcher runs at its startup and before a
\* run, never removes the script of a command that is still executing
C32_SweepSparesRunningScripts ==
    [][\A i \in Sweepers :
          sweeps[i].kind = "sweep" /\ sweeps'[i] # sweeps[i] =>
              \A n \in running : Exists(tmp.files, n) => Exists(tmp'.files, n)]_<<tmp, sweepvars>>

====
